---------------------------- MODULE Spec2Model ----------------------------
(***************************************************************************)
(* Ansieyes: the issue-triage pipeline (issue_triager.py) and the mention  *)
(* handler that drives it and manages the issue's labels (app.py).         *)
(*                                                                         *)
(* Representation.                                                         *)
(*  - A Python str that the code inspects (lower(), startswith(), a label  *)
(*    name, a risk level) is a sequence of one-character strings, so that  *)
(*    case and prefixes are computed, not assumed.  Messages the code only *)
(*    passes along are TLA+ strings.                                       *)
(*  - None is the empty sequence and a present value v is <<v>>.           *)
(*  - A float in [0,1] is its numerator over 4 (0, 1/4, .., 1): these are  *)
(*    exact in binary floating point, so int(x * 100) is (q * 100) \div 4. *)
(*  - disk holds the artifacts of the current run that exist on disk; the  *)
(*    names of a run are fresh (mkdtemp/mkstemp), so a new run starts from *)
(*    an empty set of its own artifacts.                                   *)
(***************************************************************************)
EXTENDS Integers, Sequences, FiniteSets, TLC

None == <<>>
Some(v) == <<v>>
Get(opt) == opt[1]

Min(a, b) == IF a < b THEN a ELSE b

Range(s) == {s[i] : i \in 1..Len(s)}

\* Sequences over S of length at most n.
SeqUpTo(S, n) == UNION {[1..k -> S] : k \in 0..n}

---------------------------------------------------------------------------
(* Bounds of the model.                                                    *)

\* Sequential runs started on the issue.
MaxRuns == 2
\* Issues the tracker returns from repo.get_issues(state='open').
MaxListing == 2
\* UTC seconds 1..MaxClock at which a comment is rendered.
MaxClock == 2

---------------------------------------------------------------------------
(* str helpers.                                                            *)

LowerChar(c) ==
    CASE c = "A" -> "a" [] c = "B" -> "b" [] c = "C" -> "c" [] c = "D" -> "d"
      [] c = "E" -> "e" [] c = "F" -> "f" [] c = "G" -> "g" [] c = "H" -> "h"
      [] c = "I" -> "i" [] c = "J" -> "j" [] c = "K" -> "k" [] c = "L" -> "l"
      [] c = "M" -> "m" [] c = "N" -> "n" [] c = "O" -> "o" [] c = "P" -> "p"
      [] c = "Q" -> "q" [] c = "R" -> "r" [] c = "S" -> "s" [] c = "T" -> "t"
      [] c = "U" -> "u" [] c = "V" -> "v" [] c = "W" -> "w" [] c = "X" -> "x"
      [] c = "Y" -> "y" [] c = "Z" -> "z" [] OTHER -> c

UpperChar(c) ==
    CASE c = "a" -> "A" [] c = "b" -> "B" [] c = "c" -> "C" [] c = "d" -> "D"
      [] c = "e" -> "E" [] c = "f" -> "F" [] c = "g" -> "G" [] c = "h" -> "H"
      [] c = "i" -> "I" [] c = "j" -> "J" [] c = "k" -> "K" [] c = "l" -> "L"
      [] c = "m" -> "M" [] c = "n" -> "N" [] c = "o" -> "O" [] c = "p" -> "P"
      [] c = "q" -> "Q" [] c = "r" -> "R" [] c = "s" -> "S" [] c = "t" -> "T"
      [] c = "u" -> "U" [] c = "v" -> "V" [] c = "w" -> "W" [] c = "x" -> "X"
      [] c = "y" -> "Y" [] c = "z" -> "Z" [] OTHER -> c

IsLetter(c) == LowerChar(c) # c \/ UpperChar(c) # c

\* str.lower()
Lower(s) == [i \in 1..Len(s) |-> LowerChar(s[i])]

\* str.upper()
Upper(s) == [i \in 1..Len(s) |-> UpperChar(s[i])]

\* str.replace('_', ' ')
ReplaceUnderscores(s) == [i \in 1..Len(s) |-> IF s[i] = "_" THEN " " ELSE s[i]]

\* str.title(): a letter that follows a non-letter is upper-cased, every
\* other letter is lower-cased.
Title(s) ==
    [i \in 1..Len(s) |->
        IF i = 1 \/ ~IsLetter(s[i - 1]) THEN UpperChar(s[i]) ELSE LowerChar(s[i])]

\* str.capitalize(): the first character upper-cased, the rest lower-cased.
Capitalize(s) ==
    [i \in 1..Len(s) |-> IF i = 1 THEN UpperChar(s[i]) ELSE LowerChar(s[i])]

\* str.startswith(p)
StartsWith(s, p) == Len(s) >= Len(p) /\ SubSeq(s, 1, Len(p)) = p

\* p in s
Contains(s, p) ==
    \E i \in 1..(Len(s) + 1) :
        i + Len(p) - 1 <= Len(s) /\ SubSeq(s, i, i + Len(p) - 1) = p

---------------------------------------------------------------------------
(* The strings of the program.                                             *)

safe     == <<"s", "a", "f", "e">>
low      == <<"l", "o", "w">>
medium   == <<"m", "e", "d", "i", "u", "m">>
high     == <<"h", "i", "g", "h">>
critical == <<"c", "r", "i", "t", "i", "c", "a", "l">>

TypePrefix     == <<"T", "y", "p", "e", " ", ":">>
SeverityPrefix == <<"S", "e", "v", "e", "r", "i", "t", "y", " ", ":">>

PromptInjectionBlocked ==
    <<"P", "r", "o", "m", "p", "t", " ", "i", "n", "j", "e", "c", "t", "i",
      "o", "n", " ", "b", "l", "o", "c", "k", "e", "d">>
DuplicateLabel == <<"d", "u", "p", "l", "i", "c", "a", "t", "e">>
AiTriaged      == <<"a", "i", "-", "t", "r", "i", "a", "g", "e", "d">>

\* Labels that can be on the issue before the first run: one applied by
\* hand and the Type / Severity labels of an earlier triage.
HelpWanted  == <<"h", "e", "l", "p", " ", "w", "a", "n", "t", "e", "d">>
TypeBug     == TypePrefix \o <<" ", "B", "u", "g">>
SeverityLow == SeverityPrefix \o <<" ", "L", "o", "w">>


---------------------------------------------------------------------------
(* IssueTriager.check_prompt_injection                                     *)

\* What detect_prompt_injection does when called: it raises, or it returns
\* an object with is_injection, risk_level.value, confidence_score,
\* detected_patterns and details.  A pattern is its text and its length.
Pattern(id, n) == [text |-> id, length |-> n]

DetectorRaises == [raises |-> TRUE]

DetectorReturns(inj, risk, conf, pats) ==
    [raises |-> FALSE, is_injection |-> inj, risk_level |-> risk,
     confidence_score |-> conf, detected_patterns |-> pats,
     details |-> "details"]

\* The risk levels a detector may report; "HIGH" stands for a detector
\* whose enum values are not lower-case.
RiskLevels == {safe, low, medium, high, critical, Upper(high)}

SixPatterns == [i \in 1..6 |-> Pattern("pattern", 10 * i)]

DetectorOutcomes ==
    {DetectorRaises,
     DetectorReturns(FALSE, safe, 0, <<>>),
     DetectorReturns(FALSE, critical, 1, <<>>),
     DetectorReturns(TRUE, medium, 2, <<>>),
     DetectorReturns(TRUE, Upper(high), 3, <<>>),
     DetectorReturns(TRUE, high, 3, <<>>),
     DetectorReturns(TRUE, critical, 4, SixPatterns)}

PatternCap == 5

\* A gate that fails closed: a detector that raises blocks the run.
check_prompt_injection_fail_closed(func_loaded, det) ==
    IF ~func_loaded \/ det.raises
    THEN [is_injection |-> TRUE, risk_level |-> high, confidence |-> 0,
          detected_patterns |-> <<>>, error |-> "detector unavailable"]
    ELSE [is_injection |-> det.is_injection,
          risk_level |-> det.risk_level,
          confidence |-> det.confidence_score,
          detected_patterns |->
              SubSeq(det.detected_patterns, 1,
                     Min(PatternCap, Len(det.detected_patterns))),
          method |-> "ai-issue-triage",
          details |-> det.details]

\* check_prompt_injection(text), given whether the detector was loaded by
\* __init__ and what the detector does.
check_prompt_injection(func_loaded, det) ==
    IF ~func_loaded
    THEN [is_injection |-> FALSE, risk_level |-> safe, confidence |-> 0,
          detected_patterns |-> <<>>, disabled |-> TRUE]
    ELSE IF det.raises
    THEN [is_injection |-> FALSE, risk_level |-> safe, confidence |-> 0,
          detected_patterns |-> <<>>, error |-> "detector raised"]
    ELSE [is_injection |-> det.is_injection,
          risk_level |-> det.risk_level,
          confidence |-> det.confidence_score,
          detected_patterns |->
              SubSeq(det.detected_patterns, 1,
                     Min(PatternCap, Len(det.detected_patterns))),
          method |-> "ai-issue-triage",
          details |-> det.details]

\* triage_issue: block only if HIGH or CRITICAL risk detected.
\* A block list without 'critical'.
risk_levels_high_only == {high}

risk_levels_to_block == {high, critical}

\* A gate that blocks on critical risk only.
ShouldBlockCriticalOnly(injection_check) ==
    injection_check.is_injection /\ injection_check.risk_level = critical

\* A gate that blocks every reported injection, whatever its risk.
ShouldBlockAnyInjection(injection_check) ==
    injection_check.is_injection

\* A gate that never blocks.
ShouldBlockNever(injection_check) ==
    FALSE

ShouldBlock(injection_check) ==
    injection_check.is_injection
    /\ injection_check.risk_level \in risk_levels_to_block

---------------------------------------------------------------------------
(* IssueTriager.check_for_duplicates                                       *)

\* What the duplicate-check CLI does: it cannot be launched (or the temp
\* file cannot be written, or its output is not JSON: each an exception
\* within the try statement), it exits nonzero, or it exits 0 printing a
\* JSON value that is not an object, or a JSON object.
DuplicateObject(dup, of) ==
    [is_duplicate |-> dup, duplicate_of |-> of, similarity_score |-> 3,
     confidence_score |-> 2, similarity_reasons |-> <<"reason">>]

JsonArray == [array |-> <<>>]

\* A JSON array that is not empty, which is truthy where it is tested.
JsonList == [array |-> <<"item">>]

IsDict(v) == "array" \notin DOMAIN v

DuplicateToolOutcomes(candidates) ==
    {[kind |-> "launch_error"], [kind |-> "nonzero"],
     [kind |-> "json", value |-> JsonArray],
     [kind |-> "json", value |-> DuplicateObject(FALSE, None)],
     [kind |-> "json", value |-> DuplicateObject(TRUE, None)],
     [kind |-> "json", value |-> DuplicateObject(TRUE, Some(JsonList))]}
    \cup {[kind |-> "json",
           value |-> DuplicateObject(TRUE,
                        Some([issue_id |-> c.issue_id, title |-> "title"]))] :
            c \in Range(candidates)}

\* A duplicate check that reports a failed tool without the error.
check_for_duplicates_dropping_error(has_api_key, tool) ==
    IF has_api_key /\ tool.kind = "json" THEN tool.value
    ELSE [is_duplicate |-> FALSE]

\* A duplicate check that fails closed: a failed tool reports a duplicate.
check_for_duplicates_fail_closed(has_api_key, tool) ==
    IF has_api_key /\ tool.kind = "json" THEN tool.value
    ELSE [is_duplicate |-> TRUE, error |-> tool.kind]

check_for_duplicates(has_api_key, tool) ==
    IF ~has_api_key
    THEN [is_duplicate |-> FALSE, error |-> "API key not configured"]
    ELSE IF tool.kind = "json" THEN tool.value
    ELSE [is_duplicate |-> FALSE, error |-> tool.kind]

\* A pipeline that goes on after a reported duplicate.
IsDuplicateNever(duplicate_check) == FALSE

\* A short circuit that reads a key the duplicate check does not set.
IsDuplicateWrongKey(duplicate_check) ==
    "duplicate" \in DOMAIN duplicate_check /\ duplicate_check.duplicate

\* result["duplicate_check"].get("is_duplicate")
IsDuplicate(duplicate_check) ==
    "is_duplicate" \in DOMAIN duplicate_check /\ duplicate_check.is_duplicate

---------------------------------------------------------------------------
(* IssueTriager.run_librarian and IssueTriager.run_surgeon                 *)

\* What the Librarian CLI leaves behind: it cannot be launched, it exits
\* nonzero (or writes no output file), or it exits 0 and its output file
\* holds a JSON object or a JSON value that is not an object.
FileLists == {<<>>, <<"src/a.py">>}

LibrarianToolOutcomes ==
    {[kind |-> "launch_error"], [kind |-> "nonzero"],
     [kind |-> "json", value |-> JsonArray]}
    \cup {[kind |-> "json", value |-> [relevant_files |-> fl]] :
            fl \in FileLists}

run_librarian(has_api_key, tool) ==
    IF ~has_api_key
    THEN [relevant_files |-> <<>>, error |-> "API key not configured"]
    ELSE IF tool.kind = "json" THEN tool.value
    ELSE [relevant_files |-> <<>>, error |-> tool.kind]

\* A test that takes any Librarian result as naming files.
HasRelevantFilesAlways(librarian) == TRUE

\* result["librarian"].get("relevant_files"), as a truth value.
HasRelevantFiles(librarian) ==
    "relevant_files" \in DOMAIN librarian /\ librarian.relevant_files # <<>>

\* A report is a sequence of fragments: free text, or a bold caption
\* Type: / Severity: followed by its backticked value v.
Lit(s) == [kind |-> "text", lit |-> s, val |-> <<>>]
TypeCaption(v) == [kind |-> "type", lit |-> "Type:", val |-> v]
SeverityCaption(v) == [kind |-> "severity", lit |-> "Severity:", val |-> v]

GeminiBanner   == Lit("# Gemini Analysis Report")
AnsieyesBanner == Lit("# Ansieyes Report")
GeminiFooter   == Lit("This analysis was generated by Gemini AI")
AnsieyesFooter == Lit("This analysis was generated by Ansieyes AI")

BUG == <<"B", "U", "G">>
FEATURE_REQUEST ==
    <<"F", "E", "A", "T", "U", "R", "E", "_", "R", "E", "Q", "U", "E", "S", "T">>
VERY_HIGH == <<"V", "E", "R", "Y", "_", "H", "I", "G", "H">>

Reports ==
    {<<GeminiBanner, TypeCaption(BUG), SeverityCaption(Upper(high)), GeminiFooter>>,
     <<GeminiBanner, TypeCaption(FEATURE_REQUEST), SeverityCaption(VERY_HIGH)>>,
     <<Lit("no captions")>>}

\* What cli.analyze does: it cannot be launched, exits nonzero, exits zero
\* without writing the output file, or exits zero and writes a report.
SurgeonToolOutcomes ==
    {[kind |-> "launch_error"], [kind |-> "nonzero"],
     [kind |-> "no_output_file"]}
    \cup {[kind |-> "ok", text |-> r] : r \in Reports}

\* The config _load_triage_config returns: {} or the JSON of
\* triage.config.json, which may have a 'gemini' or 'analysis' entry that is
\* not an object.
TriageConfigs == {"default", "malformed"}

\* A Surgeon that lets the exception of a malformed configuration escape.
run_surgeon_raising_on_config(has_api_key, config, tool) ==
    IF ~has_api_key THEN [error |-> "API key not configured"]
    ELSE IF config = "malformed" THEN [raises |-> "AttributeError"]
    ELSE IF tool.kind = "ok" THEN [formatted_output |-> tool.text]
    ELSE [error |-> tool.kind]

\* run_surgeon: every exception raised after the API key test, the
\* AttributeError of config.get(...).get(...) on a malformed configuration
\* included, is caught at line 313.
run_surgeon(has_api_key, config, tool) ==
    IF ~has_api_key THEN [error |-> "API key not configured"]
    ELSE IF config = "malformed" THEN [error |-> "AttributeError"]
    ELSE IF tool.kind = "ok" THEN [formatted_output |-> tool.text]
    ELSE [error |-> tool.kind]

---------------------------------------------------------------------------
(* triage_issue: repository acquisition and cleanup                        *)

\* The artifacts of a run.
TempDir        == "temp_dir"          \* handle_triage_mention: mkdtemp()
LocalTempDir   == "local_temp_dir"    \* triage_issue: mkdtemp()
TargetedRepomix == "targeted_repomix" \* triage_issue: mkstemp()
CallerRepo     == "caller_repo"       \* a repo_path of a direct caller

\* An acquisition that takes ownership of whatever directory it ends with.
AcquireRepoOwningGiven(given_path) ==
    LET dir == IF given_path # None THEN Get(given_path) ELSE LocalTempDir
    IN  [repo_path |-> dir, cleanup_needed |-> TRUE, local_temp_dir |-> Some(dir)]

\* Lines 508-515 and 539-540: the repository path, cleanup_needed and
\* local_temp_dir for a call with (Some(dir)) or without (None) a repo_path.
\* A path stands for the directory tree that holds it.
AcquireRepo(given_path) ==
    IF given_path # None
    THEN [repo_path |-> Get(given_path), cleanup_needed |-> FALSE,
          local_temp_dir |-> None]
    ELSE [repo_path |-> LocalTempDir, cleanup_needed |-> TRUE,
          local_temp_dir |-> Some(LocalTempDir)]

\* A cleanup that removes nothing.
CleanupTargetsNone(needed, temp) == {}

\* if cleanup_needed and local_temp_dir: shutil.rmtree(local_temp_dir)
CleanupTargets(needed, temp) == IF needed /\ temp # None THEN {Get(temp)} ELSE {}

\* What git clone does under subprocess.run(check=True, timeout=300).
CloneOutcomes == {"ok", "CalledProcessError", "TimeoutExpired", "OSError"}

\* What a repomix run does, and what it leaves of the output file.
RepomixExits == {"ok", "CalledProcessError", "TimeoutExpired", "OSError"}
BundleStates == {"missing", "empty", "nonempty"}

\* A builder that runs the fallback after a successful first attempt too.
NeedsFallbackAlways(exit) == TRUE

\* except (subprocess.CalledProcessError, subprocess.TimeoutExpired):
\* the exits of the targeted repomix that lead to the fallback.
NeedsFallback(exit) == exit \in {"CalledProcessError", "TimeoutExpired"}

---------------------------------------------------------------------------
(* IssueTriager.format_triage_comment                                      *)

\* A comment is a sequence of fragments, in the order the code appends them.
Val(chars) == [kind |-> "value", lit |-> "", val |-> chars]
Num(n) == Lit(ToString(n))

\* int(x * 100) for x = q / 4.
Percent(q) == (q * 100) \div 4

PreviewLength == 50

\* pattern[:50] + '...' if len(pattern) > 50 else pattern
PatternPreview(p) ==
    IF p.length > PreviewLength
    THEN <<Lit(p.text), Lit("[:50]...")>>
    ELSE <<Lit(p.text)>>

risk_emoji(risk_level) ==
    CASE risk_level = safe -> "emoji safe"
      [] risk_level = low -> "emoji low"
      [] risk_level = medium -> "emoji medium"
      [] risk_level = high -> "emoji high"
      [] risk_level = critical -> "emoji critical"
      [] OTHER -> "emoji warning"

RECURSIVE NumberedPatterns(_, _)
NumberedPatterns(pats, i) ==
    IF i > Len(pats) THEN <<>>
    ELSE <<Num(i)>> \o PatternPreview(pats[i]) \o NumberedPatterns(pats, i + 1)

RECURSIVE NumberedReasons(_, _)
NumberedReasons(reasons, i) ==
    IF i > Len(reasons) THEN <<>>
    ELSE <<Num(i), Lit(reasons[i])>> \o NumberedReasons(reasons, i + 1)

\* Lines 645-667; utcnow is datetime.utcnow() to the second.
BlockedComment(injection, risk_level, utcnow) ==
    <<AnsieyesBanner,
      Lit(risk_emoji(risk_level)),
      Lit("Security Alert: High-Risk Prompt Injection Detected"),
      Lit("Risk Level:"), Val(Upper(risk_level)),
      Lit("Confidence:"), Num(Percent(injection.confidence)),
      Lit("Generated:"), Num(utcnow)>>
    \o (IF injection.detected_patterns # <<>>
        THEN <<Lit("Flagged Patterns")>>
             \o NumberedPatterns(
                    SubSeq(injection.detected_patterns, 1,
                           Min(3, Len(injection.detected_patterns))), 1)
        ELSE <<>>)
    \o <<Lit("Action Taken"),
         Lit("Analysis has been halted for security reasons."),
         Lit("Powered by Ansieyes Security (AI-Issue-Triage)")>>

\* Lines 669-677: in the duplicate template dup_of.get is called on a
\* truthy duplicate_of, which raises AttributeError unless it is a dict.
FormatRaises(triage_result) ==
    /\ triage_result.duplicate_check # None
    /\ IsDict(Get(triage_result.duplicate_check))
    /\ IsDuplicate(Get(triage_result.duplicate_check))
    /\ "duplicate_of" \in DOMAIN Get(triage_result.duplicate_check)
    /\ Get(triage_result.duplicate_check).duplicate_of # None
    /\ ~IsDict(Get(Get(triage_result.duplicate_check).duplicate_of))

\* Lines 673-701.
DuplicateComment(dup, utcnow) ==
    LET dup_of == IF "duplicate_of" \in DOMAIN dup THEN dup.duplicate_of ELSE None
        dup_issue_id == IF dup_of # None THEN Get(dup_of).issue_id ELSE "unknown"
        dup_title == IF dup_of # None THEN Get(dup_of).title ELSE "Unknown Title"
        reasons == IF "similarity_reasons" \in DOMAIN dup
                   THEN dup.similarity_reasons ELSE <<>>
    IN  <<AnsieyesBanner,
          Lit("Duplicate Issue Detected"),
          Lit("This issue appears to be a duplicate of"),
          Lit(dup_issue_id), Lit(dup_title),
          Lit("Similarity Score:"),
          Num(Percent(IF "similarity_score" \in DOMAIN dup
                      THEN dup.similarity_score ELSE 0)),
          Lit("Confidence:"),
          Num(Percent(IF "confidence_score" \in DOMAIN dup
                      THEN dup.confidence_score ELSE 0)),
          Lit("Generated:"), Num(utcnow)>>
        \o (IF reasons # <<>>
            THEN <<Lit("Similarity Reasons")>>
                 \o NumberedReasons(SubSeq(reasons, 1, Min(5, Len(reasons))), 1)
            ELSE <<>>)
        \o <<Lit("Recommendation"), Lit(dup_issue_id),
             Lit("Powered by Ansieyes (AI-Issue-Triage)")>>

\* formatted.replace(banner).replace(footer), lines 714-718.
ReplaceBanner(formatted) ==
    [i \in 1..Len(formatted) |->
        IF formatted[i] = GeminiBanner THEN AnsieyesBanner
        ELSE IF formatted[i] = GeminiFooter THEN AnsieyesFooter
        ELSE formatted[i]]

IncompleteComment ==
    <<Lit("Analysis Incomplete"), Lit("No analysis results available."),
      Lit("Powered by Ansieyes")>>

NoFormattedOutputComment ==
    <<Lit("Analysis Incomplete"), Lit("No formatted output available."),
      Lit("Powered by Ansieyes")>>

FailedComment(error) ==
    <<Lit("Analysis Failed"), Lit(error), Lit("Powered by Ansieyes")>>

\* A selection that has no duplicate template.
TemplateIgnoringDuplicates(triage_result) ==
    IF /\ triage_result.prompt_injection_check # None
       /\ Get(triage_result.prompt_injection_check).is_injection
       /\ Lower(Get(triage_result.prompt_injection_check).risk_level)
              \in {high, critical}
    THEN "blocked"
    ELSE IF triage_result.surgeon = None THEN "incomplete"
    ELSE IF "error" \in DOMAIN Get(triage_result.surgeon) THEN "failed"
    ELSE IF "formatted_output" \in DOMAIN Get(triage_result.surgeon)
    THEN "complete"
    ELSE "no_formatted_output"

\* Which template format_triage_comment renders for an outcome.
Template(triage_result) ==
    IF /\ triage_result.prompt_injection_check # None
       /\ Get(triage_result.prompt_injection_check).is_injection
       /\ Lower(Get(triage_result.prompt_injection_check).risk_level)
              \in {high, critical}
    THEN "blocked"
    ELSE IF /\ triage_result.duplicate_check # None
            /\ IsDuplicate(Get(triage_result.duplicate_check))
    THEN "duplicate"
    ELSE IF triage_result.surgeon = None THEN "incomplete"
    ELSE IF "error" \in DOMAIN Get(triage_result.surgeon) THEN "failed"
    ELSE IF "formatted_output" \in DOMAIN Get(triage_result.surgeon)
    THEN "complete"
    ELSE "no_formatted_output"

\* A formatter that stamps the generation time on every template.
format_stamping_every_template(triage_result, utcnow) ==
    LET t == Template(triage_result)
    IN  (CASE t = "blocked" ->
                BlockedComment(Get(triage_result.prompt_injection_check),
                    Lower(Get(triage_result.prompt_injection_check).risk_level),
                    utcnow)
           [] t = "duplicate" ->
                DuplicateComment(Get(triage_result.duplicate_check), utcnow)
           [] t = "incomplete" -> IncompleteComment
           [] t = "failed" -> FailedComment(Get(triage_result.surgeon).error)
           [] t = "complete" ->
                ReplaceBanner(Get(triage_result.surgeon).formatted_output)
           [] OTHER -> NoFormattedOutputComment)
        \o <<Lit("Generated:"), Num(utcnow)>>

format_triage_comment(triage_result, utcnow) ==
    LET t == Template(triage_result)
    IN  CASE t = "blocked" ->
               BlockedComment(Get(triage_result.prompt_injection_check),
                   Lower(Get(triage_result.prompt_injection_check).risk_level),
                   utcnow)
          [] t = "duplicate" ->
               DuplicateComment(Get(triage_result.duplicate_check), utcnow)
          [] t = "incomplete" -> IncompleteComment
          [] t = "failed" -> FailedComment(Get(triage_result.surgeon).error)
          [] t = "complete" ->
               ReplaceBanner(Get(triage_result.surgeon).formatted_output)
          [] OTHER -> NoFormattedOutputComment

---------------------------------------------------------------------------
(* handle_triage_mention: label derivation, lines 686-753                  *)

\* re.search of a caption followed by a backticked value: the value of the
\* first fragment of that kind, or None.
RECURSIVE FirstCaption(_, _, _)
FirstCaption(text, kind, i) ==
    IF i > Len(text) THEN None
    ELSE IF text[i].kind = kind /\ text[i].val # <<>> THEN Some(text[i].val)
    ELSE FirstCaption(text, kind, i + 1)

TypeLabel(issue_type) ==
    TypePrefix \o <<" ">> \o Title(ReplaceUnderscores(issue_type))

SeverityLabel(severity) == SeverityPrefix \o <<" ">> \o Capitalize(severity)

\* Case 1: HIGH/CRITICAL prompt injection (blocked).
IsBlockedForLabels(triage_result) ==
    /\ triage_result.prompt_injection_check # None
    /\ Get(triage_result.prompt_injection_check).is_injection
    /\ Lower(Get(triage_result.prompt_injection_check).risk_level)
           \in {high, critical}

SurgeonLabels(surgeon) ==
    IF "error" \notin DOMAIN surgeon /\ "formatted_output" \in DOMAIN surgeon
    THEN LET type_match == FirstCaption(surgeon.formatted_output, "type", 1)
             severity_match == FirstCaption(surgeon.formatted_output, "severity", 1)
         IN  (IF type_match # None
              THEN <<TypeLabel(Lower(Get(type_match)))>> ELSE <<>>)
             \o (IF severity_match # None
                 THEN <<SeverityLabel(Lower(Get(severity_match)))>> ELSE <<>>)
             \o <<AiTriaged>>
    ELSE <<>>

\* A deriver that adds the labels of every case that applies.
DeriveLabelsAdditive(triage_result) ==
    LET is_duplicate == /\ triage_result.duplicate_check # None
                        /\ IsDuplicate(Get(triage_result.duplicate_check))
    IN  (IF IsBlockedForLabels(triage_result)
         THEN <<PromptInjectionBlocked>> ELSE <<>>)
        \o (IF is_duplicate THEN <<DuplicateLabel, AiTriaged>> ELSE <<>>)
        \o (IF ~is_duplicate /\ triage_result.surgeon # None
            THEN SurgeonLabels(Get(triage_result.surgeon)) ELSE <<>>)

\* labels_to_add for a triage result.
DeriveLabels(triage_result) ==
    LET is_blocked == IsBlockedForLabels(triage_result)
        is_duplicate == /\ triage_result.duplicate_check # None
                        /\ IsDuplicate(Get(triage_result.duplicate_check))
    IN  (IF is_blocked THEN <<PromptInjectionBlocked>> ELSE <<>>)
        \o (IF ~is_blocked /\ is_duplicate
            THEN <<DuplicateLabel, AiTriaged>> ELSE <<>>)
        \o (IF ~is_blocked /\ ~is_duplicate /\ triage_result.surgeon # None
            THEN SurgeonLabels(Get(triage_result.surgeon)) ELSE <<>>)

\* issue.labels: the labels of the issue in the tracker's order (by name
\* length, then as TLC orders them: an arbitrary fixed order).
RECURSIVE LabelList(_)
LabelList(set) ==
    IF set = {} THEN <<>>
    ELSE LET first == CHOOSE l \in set : \A m \in set : Len(l) <= Len(m)
         IN  <<first>> \o LabelList(set \ {first})

IsTypeLabel(label) == StartsWith(label, TypePrefix)
IsSeverityLabel(label) == StartsWith(label, SeverityPrefix)
IsTypeOrSeverityLabel(label) == IsTypeLabel(label) \/ IsSeverityLabel(label)

\* A removal scoped to the Type / Severity labels.
LabelsToRemoveTypeSeverityOnly(existing_labels) ==
    SelectSeq(existing_labels, IsTypeOrSeverityLabel)

\* Lines 672-684: the labels the handler sets out to remove.
LabelsToRemove(existing_labels) == existing_labels

---------------------------------------------------------------------------
(* handle_triage_mention: the candidates of the duplicate check            *)

\* The issue under triage and what repo.get_issues(state='open') can
\* return: the issue itself, an older issue, one created in the same
\* second and a newer one.
TriagedIssue == [number |-> 2, created_at |-> 2]

TrackerIssues ==
    {[number |-> 1, created_at |-> 1], TriagedIssue,
     [number |-> 3, created_at |-> 2], [number |-> 4, created_at |-> 3]}

Listings ==
    {l \in SeqUpTo(TrackerIssues, MaxListing) :
        \A i, j \in 1..Len(l) : i # j => l[i].number # l[j].number}

\* A filter that keeps the issues created in the same second.
IsCandidateNotStrict(existing_issue, issue_number, current_issue_created_at) ==
    /\ existing_issue.number # issue_number
    /\ existing_issue.created_at <= current_issue_created_at

\* Lines 589-594: the issues kept as candidates.
IsCandidate(existing_issue, issue_number, current_issue_created_at) ==
    /\ existing_issue.number # issue_number
    /\ existing_issue.created_at < current_issue_created_at

\* Lines 595-602: the summary passed on; created_date is the creation time.
Summary(existing_issue) ==
    [issue_id |-> ToString(existing_issue.number),
     created_date |-> existing_issue.created_at]

RECURSIVE OlderIssues(_, _, _)
OlderIssues(listing, issue_number, created_at) ==
    IF listing = <<>> THEN <<>>
    ELSE (IF IsCandidate(Head(listing), issue_number, created_at)
          THEN <<Summary(Head(listing))>> ELSE <<>>)
         \o OlderIssues(Tail(listing), issue_number, created_at)

\* The lists a direct caller of triage_issue passes: no existing issue, or
\* one.
DirectCandidates == {<<>>, <<Summary([number |-> 1, created_at |-> 1])>>}

---------------------------------------------------------------------------
(* State.                                                                  *)

VARIABLES
    pc,               \* position of the run in progress
    mode,             \* "mention": handle_triage_mention; "direct": triage_issue
    runs,             \* runs started so far
    detector_loaded,  \* self.detect_prompt_injection_func is set
    api_key,          \* self.api_key is set
    existing_issues,  \* the candidates passed to triage_issue
    given_path,       \* the repo_path argument of triage_issue, or None
    repo_path,        \* triage_issue: repo_path after acquisition
    cleanup_needed,   \* triage_issue: cleanup_needed
    local_temp_dir,   \* triage_issue: local_temp_dir
    result,           \* triage_issue: result
    exc,              \* the exception being propagated, or None
    calls,            \* the stages and tools invoked in this run, in order
    exits,            \* how each git and repomix process of this run ended
    detector_outcome, \* what the detector did in this run, or None
    disk,             \* the directories of this run that exist
    bundle,           \* the targeted repomix file: "none" before mkstemp
    rmtree_log,       \* the rmtree calls of this run: who removed what
    comment_body,     \* handle_triage_mention: comment_body, or None
    comments,         \* the comments of this run that are on the issue
    labels,           \* the labels on the issue (tracker state)
    labels_before,    \* the labels on the issue when the run started
    labels_to_add,    \* handle_triage_mention: labels_to_add, or None
    tracker_failed,   \* the label calls of this run that raised
    fmt_outcome,      \* format check: the outcome rendered
    fmt_clock,        \* format check: the UTC second
    fmt_rendered,     \* format check: the renderings made, with their time
    conc,             \* concurrent runs: their positions, paths and files
    chunking,         \* _generate_repomix_chunks: its position and locals
    coloring,         \* label creation: its position and locals
    configuring,      \* Surgeon configuration: its position and locals
    labelling,        \* interleaved label management: the issue and the runs
    reviewing,        \* handle_pr_review_mention: its position and comments
    routing,          \* webhook: the events received and the handlers invoked
    staging           \* a stage's temporary JSON file: its position and files

objectVars  == <<detector_loaded, api_key>>
triageVars  == <<existing_issues, given_path, repo_path, cleanup_needed,
                 local_temp_dir, result, exc, calls, exits,
                 detector_outcome>>
fsVars      == <<disk, bundle, rmtree_log>>
handlerVars == <<comment_body, comments, labels_before, labels_to_add,
                 tracker_failed>>
fmtVars     == <<fmt_outcome, fmt_clock, fmt_rendered>>
moreVars    == <<labelling, reviewing, routing, staging>>
sideVars    == <<conc, chunking, coloring, configuring, moreVars>>
mainVars    == <<pc, mode, runs, objectVars, triageVars, fsVars, handlerVars,
                 labels>>

vars == <<pc, mode, runs, objectVars, triageVars, fsVars, handlerVars, labels,
          fmtVars, sideVars>>

\* Lines 471-476.
EmptyResult ==
    [prompt_injection_check |-> None, duplicate_check |-> None,
     librarian |-> None, surgeon |-> None, error |-> None]

InitialLabelSets ==
    {{}, {HelpWanted, TypeBug}, {HelpWanted, TypeBug, SeverityLow}}

NoFormatCheck ==
    /\ fmt_outcome = EmptyResult
    /\ fmt_clock = 1
    /\ fmt_rendered = <<>>

NoConcurrentRuns == conc = [pc |-> "off"]
NoChunking == chunking = [pc |-> "off"]
NoColoring == coloring = [pc |-> "off"]
NoConfiguring == configuring = [pc |-> "off"]
NoLabelling == labelling = [pc |-> "off"]
NoReviewing == reviewing = [pc |-> "off"]
NoRouting == routing = [pc |-> "off"]
NoStaging == staging = [pc |-> "off"]

NoRun ==
    /\ mode = "none"
    /\ existing_issues = <<>>
    /\ given_path = None
    /\ repo_path = None
    /\ cleanup_needed = FALSE
    /\ local_temp_dir = None
    /\ result = EmptyResult
    /\ exc = None
    /\ calls = <<>>
    /\ exits = <<>>
    /\ detector_outcome = None
    /\ disk = {}
    /\ bundle = "none"
    /\ rmtree_log = {}
    /\ comment_body = None
    /\ comments = {}
    /\ labels_to_add = None
    /\ tracker_failed = {}

Init ==
    /\ pc = "idle"
    /\ runs = 0
    /\ NoLabelling
    /\ NoReviewing
    /\ NoRouting
    /\ NoStaging
    /\ detector_loaded \in BOOLEAN
    /\ api_key \in BOOLEAN
    /\ labels \in InitialLabelSets
    /\ labels_before = labels
    /\ NoRun
    /\ NoFormatCheck
    /\ NoConcurrentRuns
    /\ NoChunking
    /\ NoColoring
    /\ NoConfiguring

---------------------------------------------------------------------------
(* Starting a run.                                                         *)

Rmtree(by, targets) ==
    /\ disk' = disk \ targets
    /\ rmtree_log' = rmtree_log \cup {[by |-> by, path |-> t] : t \in targets}

StartRun(m, path, candidates, dirs, posted) ==
    /\ pc = "idle"
    /\ runs < MaxRuns
    /\ runs' = runs + 1
    /\ mode' = m
    /\ existing_issues' = candidates
    /\ given_path' = path
    /\ repo_path' = None
    /\ cleanup_needed' = FALSE
    /\ local_temp_dir' = None
    /\ result' = EmptyResult
    /\ exc' = None
    /\ calls' = <<>>
    /\ exits' = <<>>
    /\ detector_outcome' = None
    /\ disk' = dirs
    /\ bundle' = "none"
    /\ rmtree_log' = {}
    /\ comment_body' = None
    /\ comments' = posted
    /\ labels_before' = labels
    /\ labels_to_add' = None
    /\ tracker_failed' = {}
    /\ UNCHANGED <<objectVars, labels, fmtVars, sideVars>>

\* handle_triage_mention, lines 495-546: the issue is fetched, the
\* processing comment posted and the clone directory made.  A tracker call
\* that raises leaves the handler through its outer except clause.
StartMention ==
    \E posted \in BOOLEAN :
        IF posted
        THEN /\ StartRun("mention", Some(TempDir), <<>>, {TempDir}, {"processing"})
             /\ pc' = "h_clone"
        ELSE /\ StartRun("mention", Some(TempDir), <<>>, {}, {})
             /\ pc' = "h_except"

\* triage_issue called directly, lines 447-476, with or without a repo_path.
StartDirect ==
    \E given \in BOOLEAN, candidates \in DirectCandidates :
        /\ StartRun("direct", IF given THEN Some(CallerRepo) ELSE None,
                    candidates, IF given THEN {CallerRepo} ELSE {}, {})
        /\ pc' = "t_injection"

---------------------------------------------------------------------------
(* handle_triage_mention before triage_issue.                              *)

\* Lines 548-579: git clone; on a timeout or any other exception an error
\* comment is posted and the clone directory removed.  create_comment can
\* raise, which leaves the handler through its outer except clause.
H_Clone ==
    /\ pc = "h_clone"
    /\ calls' = Append(calls, "h_git_clone")
    /\ \E out \in CloneOutcomes, comment_posted \in BOOLEAN :
          /\ exits' = Append(exits, [tool |-> "h_git_clone", exit |-> out])
          /\ IF out = "ok"
             THEN /\ comment_posted
                  /\ pc' = "h_fetch"
                  /\ UNCHANGED <<fsVars, comments>>
             ELSE IF comment_posted
             THEN /\ comments' = comments \cup {"clone_error"}
                  /\ Rmtree("handle_triage_mention", {TempDir})
                  /\ pc' = "done"
                  /\ UNCHANGED bundle
             ELSE /\ pc' = "h_except"
                  /\ UNCHANGED <<fsVars, comments>>
    /\ UNCHANGED <<mode, runs, objectVars, existing_issues, given_path,
                   repo_path, cleanup_needed, local_temp_dir, result, exc,
                   detector_outcome, comment_body, labels_before,
                   labels_to_add, tracker_failed, labels, fmtVars, sideVars>>

\* Lines 581-616: the open issues are listed and filtered, and triage_issue
\* is called with them.  A listing that fails part-way leaves the issues
\* filtered so far, which is the result for a shorter listing.
H_Fetch ==
    /\ pc = "h_fetch"
    /\ \E listing \in Listings :
          existing_issues' =
              OlderIssues(listing, TriagedIssue.number, TriagedIssue.created_at)
    /\ pc' = "t_injection"
    /\ UNCHANGED <<mode, runs, objectVars, given_path, repo_path,
                   cleanup_needed, local_temp_dir, result, exc, calls, exits,
                   detector_outcome, fsVars, handlerVars, labels, fmtVars, sideVars>>

---------------------------------------------------------------------------
(* triage_issue.                                                           *)

\* Lines 478-493.
T_Injection ==
    /\ pc = "t_injection"
    /\ \E det \in DetectorOutcomes :
          LET injection_check == check_prompt_injection(detector_loaded, det)
          IN  /\ detector_loaded \/ det = DetectorRaises
              /\ detector_outcome' = IF detector_loaded THEN Some(det) ELSE None
              /\ result' =
                    [result EXCEPT
                        !.prompt_injection_check = Some(injection_check),
                        !.error = IF ShouldBlock(injection_check)
                                  THEN Some("High-risk prompt injection attempt detected")
                                  ELSE @]
              /\ pc' = IF ShouldBlock(injection_check)
                       THEN "t_return" ELSE "t_duplicate"
    /\ calls' = Append(calls, "check_prompt_injection")
    /\ exits' = exits
    /\ UNCHANGED <<mode, runs, objectVars, existing_issues, given_path,
                   repo_path, cleanup_needed, local_temp_dir, exc, fsVars,
                   handlerVars, labels, fmtVars, sideVars>>

\* Lines 495-504.  A duplicate_check that is not a dict has no get(): the
\* AttributeError is raised outside the try statement of triage_issue.
\* subprocess.run without a timeout argument (lines 144-150, 209-215,
\* 294-300) waits for the tool for as long as the tool runs: when the tool
\* never exits, the call never returns and the run stays in it.
NeverReturns(tool) ==
    /\ api_key
    /\ calls' = Append(calls, tool)
    /\ exits' = Append(exits, [tool |-> tool, exit |-> "never_returns"])
    /\ pc' = "hung"
    /\ UNCHANGED <<result, exc, fsVars>>

T_Duplicate ==
    /\ pc = "t_duplicate"
    /\ IF existing_issues = <<>>
       THEN /\ pc' = "t_acquire"
            /\ UNCHANGED <<result, exc, calls, exits>>
       ELSE \/ NeverReturns("check_for_duplicates")
            \/ \E tool \in DuplicateToolOutcomes(existing_issues) :
               LET duplicate_check == check_for_duplicates(api_key, tool)
               IN  /\ api_key \/ tool.kind = "launch_error"
                   /\ calls' = Append(calls, "check_for_duplicates")
                   /\ exits' = Append(exits,
                          [tool |-> "check_for_duplicates",
                           exit |-> IF api_key THEN tool.kind
                                    ELSE "no_api_key"])
                   /\ result' = [result EXCEPT
                                    !.duplicate_check = Some(duplicate_check)]
                   /\ IF ~IsDict(duplicate_check)
                      THEN /\ exc' = Some("AttributeError")
                           /\ pc' = "t_raise"
                      ELSE /\ exc' = exc
                           /\ pc' = IF IsDuplicate(duplicate_check)
                                    THEN "t_return" ELSE "t_acquire"
    /\ UNCHANGED <<mode, runs, objectVars, existing_issues, given_path,
                   repo_path, cleanup_needed, local_temp_dir,
                   detector_outcome, fsVars, handlerVars, labels, fmtVars, sideVars>>

\* Lines 506-540.  CalledProcessError and TimeoutExpired are handled; any
\* other exception of subprocess.run (git cannot be launched) is not.
T_Acquire ==
    /\ pc = "t_acquire"
    /\ LET acq == AcquireRepo(given_path)
       IN  /\ repo_path' = Some(acq.repo_path)
           /\ cleanup_needed' = acq.cleanup_needed
           /\ local_temp_dir' = acq.local_temp_dir
           /\ IF given_path # None
              THEN /\ pc' = "t_librarian"
                   /\ UNCHANGED <<result, exc, calls, exits, fsVars>>
              ELSE \E out \in CloneOutcomes :
                      /\ calls' = Append(calls, "git_clone")
                      /\ exits' = Append(exits, [tool |-> "git_clone",
                                                  exit |-> out])
                      /\ bundle' = bundle
                      /\ CASE out = "ok" ->
                                /\ disk' = disk \cup {LocalTempDir}
                                /\ pc' = "t_librarian"
                                /\ UNCHANGED <<result, exc, rmtree_log>>
                           [] out = "OSError" ->
                                /\ disk' = disk \cup {LocalTempDir}
                                /\ exc' = Some("OSError")
                                /\ pc' = "t_raise"
                                /\ UNCHANGED <<result, rmtree_log>>
                           [] OTHER ->
                                /\ disk' = (disk \cup {LocalTempDir})
                                       \ CleanupTargets(acq.cleanup_needed,
                                                        acq.local_temp_dir)
                                /\ rmtree_log' = rmtree_log \cup
                                       {[by |-> "triage_issue", path |-> t] :
                                          t \in CleanupTargets(acq.cleanup_needed,
                                                               acq.local_temp_dir)}
                                /\ result' = [result EXCEPT !.error =
                                       Some(IF out = "TimeoutExpired"
                                            THEN "Repository clone timeout"
                                            ELSE "Failed to clone repository")]
                                /\ exc' = exc
                                /\ pc' = "t_return"
    /\ UNCHANGED <<mode, runs, objectVars, existing_issues, given_path,
                   detector_outcome, handlerVars, labels, fmtVars, sideVars>>

\* Lines 542-555: _load_triage_config and run_librarian, neither of which
\* raises; a librarian result that is not a dict has no get().  With no
\* relevant file the owned directory is removed and the function returns
\* through its finally clause.
T_Librarian ==
    /\ pc = "t_librarian"
    /\ \/ NeverReturns("run_librarian")
       \/ \E tool \in LibrarianToolOutcomes :
          LET librarian == run_librarian(api_key, tool)
          IN  /\ api_key \/ tool.kind = "launch_error"
              /\ calls' = Append(calls, "run_librarian")
              /\ exits' = Append(exits,
                     [tool |-> "run_librarian",
                      exit |-> IF api_key THEN tool.kind ELSE "no_api_key"])
              /\ result' = [result EXCEPT !.librarian = Some(librarian)]
              /\ IF ~IsDict(librarian)
                 THEN /\ exc' = Some("AttributeError")
                      /\ pc' = "t_except"
                      /\ UNCHANGED fsVars
                 ELSE IF ~HasRelevantFiles(librarian)
                 THEN /\ Rmtree("triage_issue",
                                CleanupTargets(cleanup_needed, local_temp_dir))
                      /\ pc' = "t_finally"
                      /\ UNCHANGED <<exc, bundle>>
                 ELSE /\ pc' = "t_snapshot"
                      /\ UNCHANGED <<exc, fsVars>>
    /\ UNCHANGED <<mode, runs, objectVars, existing_issues, given_path,
                   repo_path, cleanup_needed, local_temp_dir,
                   detector_outcome, handlerVars, labels, fmtVars, sideVars>>

\* Lines 557-576: mkstemp, then repomix on the identified files with
\* check=True and a timeout.  A tool that cannot be launched leaves the
\* empty file that mkstemp made.
T_Snapshot ==
    /\ pc = "t_snapshot"
    /\ calls' = Append(calls, "repomix_targeted")
    /\ \E exit \in RepomixExits, file \in BundleStates :
          /\ exits' = Append(exits, [tool |-> "repomix_targeted",
                                      exit |-> exit])
          /\ exit = "OSError" => file = "empty"
          /\ bundle' = file
          /\ CASE exit = "OSError" -> pc' = "t_except" /\ exc' = Some("OSError")
               [] exit # "OSError" /\ NeedsFallback(exit) ->
                      pc' = "t_fallback" /\ exc' = exc
               [] OTHER -> pc' = "t_surgeon" /\ exc' = exc
    /\ UNCHANGED <<mode, runs, objectVars, existing_issues, given_path,
                   repo_path, cleanup_needed, local_temp_dir, result,
                   detector_outcome, disk, rmtree_log, handlerVars, labels,
                   fmtVars, sideVars>>

\* Lines 577-580: the fallback, repomix on the full repository, with a
\* timeout and without check: a nonzero exit is ignored, a timeout or a
\* launch failure is raised from within the except clause.
T_Fallback ==
    /\ pc = "t_fallback"
    /\ calls' = Append(calls, "repomix_fallback")
    /\ \E exit \in RepomixExits, file \in BundleStates :
          /\ exits' = Append(exits, [tool |-> "repomix_fallback",
                                      exit |-> exit])
          /\ exit = "OSError" => file = bundle
          /\ bundle' = file
          /\ IF exit \in {"ok", "CalledProcessError"}
             THEN pc' = "t_surgeon" /\ exc' = exc
             ELSE pc' = "t_except" /\ exc' = Some(exit)
    /\ UNCHANGED <<mode, runs, objectVars, existing_issues, given_path,
                   repo_path, cleanup_needed, local_temp_dir, result,
                   detector_outcome, disk, rmtree_log, handlerVars, labels,
                   fmtVars, sideVars>>

\* Lines 582-590: the Surgeon runs on a bundle that exists and is not empty.
T_Surgeon ==
    /\ pc = "t_surgeon"
    /\ IF bundle = "nonempty"
       THEN \/ NeverReturns("run_surgeon")
            \/ \E config \in TriageConfigs, tool \in SurgeonToolOutcomes :
               LET surgeon == run_surgeon(api_key, config, tool)
               IN  /\ api_key \/ config = "default"
                   /\ (api_key /\ config = "default") \/ tool.kind = "launch_error"
                   /\ calls' = Append(calls, "run_surgeon")
                   /\ exits' = Append(exits,
                          [tool |-> "run_surgeon",
                           exit |-> IF ~api_key THEN "no_api_key"
                                    ELSE IF config = "malformed"
                                    THEN "malformed_config"
                                    ELSE tool.kind])
                   /\ IF "raises" \in DOMAIN surgeon
                      THEN /\ exc' = Some(surgeon.raises)
                           /\ pc' = "t_except"
                           /\ result' = result
                      ELSE /\ exc' = exc
                           /\ pc' = "t_unlink"
                           /\ result' = [result EXCEPT !.surgeon = Some(surgeon)]
       ELSE /\ calls' = calls
            /\ exits' = exits
            /\ exc' = exc
            /\ pc' = "t_unlink"
            /\ result' = [result EXCEPT !.surgeon =
                             Some([error |-> "Failed to generate targeted repomix"])]
    /\ UNCHANGED <<mode, runs, objectVars, existing_issues, given_path,
                   repo_path, cleanup_needed, local_temp_dir,
                   detector_outcome, fsVars, handlerVars, labels, fmtVars, sideVars>>

\* Lines 592-597: os.unlink of the targeted file; its failure is logged.
T_Unlink ==
    /\ pc = "t_unlink"
    /\ bundle' = "missing"
    /\ pc' = "t_finally"
    /\ UNCHANGED <<mode, runs, objectVars, triageVars, disk, rmtree_log,
                   handlerVars, labels, fmtVars, sideVars>>

\* Lines 599-604: an exception raised in the try statement becomes the
\* error of the result.
T_Except ==
    /\ pc = "t_except"
    /\ result' = [result EXCEPT !.error = exc]
    /\ exc' = None
    /\ pc' = "t_finally"
    /\ UNCHANGED <<mode, runs, objectVars, existing_issues, given_path,
                   repo_path, cleanup_needed, local_temp_dir, calls, exits,
                   detector_outcome, fsVars, handlerVars, labels, fmtVars, sideVars>>

\* Lines 605-613.
T_Finally ==
    /\ pc = "t_finally"
    /\ Rmtree("triage_issue", CleanupTargets(cleanup_needed, local_temp_dir))
    /\ pc' = "t_return"
    /\ UNCHANGED <<mode, runs, objectVars, triageVars, bundle, handlerVars,
                   labels, fmtVars, sideVars>>

\* triage_issue returns its result: to the handler, or to the direct caller.
T_Return ==
    /\ pc = "t_return"
    /\ pc' = IF mode = "mention" THEN "h_rmtree" ELSE "done"
    /\ UNCHANGED <<mode, runs, objectVars, triageVars, fsVars, handlerVars,
                   labels, fmtVars, sideVars>>

\* triage_issue raises: into the outer except clause of the handler (lines
\* 796-799), or to the direct caller.
T_Raise ==
    /\ pc = "t_raise"
    /\ pc' = IF mode = "mention" THEN "h_except" ELSE "done"
    /\ UNCHANGED <<mode, runs, objectVars, triageVars, fsVars, handlerVars,
                   labels, fmtVars, sideVars>>

---------------------------------------------------------------------------
(* handle_triage_mention after triage_issue.                               *)

\* Lines 618-624.
H_Rmtree ==
    /\ pc = "h_rmtree"
    /\ Rmtree("handle_triage_mention", {TempDir})
    /\ pc' = "h_format"
    /\ UNCHANGED <<mode, runs, objectVars, triageVars, bundle, handlerVars,
                   labels, fmtVars, sideVars>>

\* Lines 626-666: the comment is rendered and posted and the processing
\* comment deleted.  When format_triage_comment raises, the processing
\* comment is deleted and the handler returns (lines 642-651); when
\* create_comment raises, the failure is logged and the handler goes on
\* (lines 656-659).
H_Format ==
    /\ pc = "h_format"
    /\ IF FormatRaises(result)
       THEN /\ comments' = comments \ {"processing"}
            /\ pc' = "done"
            /\ UNCHANGED comment_body
       ELSE /\ \E utcnow \in 1..MaxClock, posted \in BOOLEAN :
                  /\ comment_body' = Some(format_triage_comment(result, utcnow))
                  /\ comments' = (IF posted THEN comments \cup {"result"}
                                  ELSE comments) \ {"processing"}
            /\ pc' = "h_labels"
    /\ UNCHANGED <<mode, runs, objectVars, triageVars, fsVars, labels_before,
                   labels_to_add, tracker_failed, labels, fmtVars, sideVars>>

\* Lines 668-792, label management.  issue.remove_from_labels is called for
\* each label of the issue, in the order the tracker lists them; a call
\* that raises ends the loop with the labels removed so far.  Then
\* labels_to_add is derived and, when not empty, applied with one
\* add_to_labels call; when that raises no label is added.
H_Labels ==
    /\ pc = "h_labels"
    /\ LET existing_labels == LabelsToRemove(LabelList(labels))
           derived == DeriveLabels(result)
       IN  \E n \in 0..Len(existing_labels), added \in BOOLEAN :
              /\ derived = <<>> => added
              /\ labels_to_add' = Some(derived)
              /\ labels' = (labels \ Range(SubSeq(existing_labels, 1, n)))
                              \cup (IF added THEN Range(derived) ELSE {})
              /\ tracker_failed' =
                    (IF n = Len(existing_labels) THEN {}
                     ELSE {"remove_from_labels"})
                    \cup (IF added THEN {} ELSE {"add_to_labels"})
    /\ pc' = "done"
    /\ UNCHANGED <<mode, runs, objectVars, triageVars, fsVars, comment_body,
                   comments, labels_before, fmtVars, sideVars>>

\* Lines 794-799: the outer except clauses log the exception.
H_Except ==
    /\ pc = "h_except"
    /\ pc' = "done"
    /\ UNCHANGED <<mode, runs, objectVars, triageVars, fsVars, handlerVars,
                   labels, fmtVars, sideVars>>

\* The run is over and its locals are gone; the next one may start.  The
\* labels stay on the issue.
Finish ==
    /\ pc = "done"
    /\ pc' = "idle"
    /\ mode' = "none"
    /\ existing_issues' = <<>>
    /\ given_path' = None
    /\ repo_path' = None
    /\ cleanup_needed' = FALSE
    /\ local_temp_dir' = None
    /\ result' = EmptyResult
    /\ exc' = None
    /\ calls' = <<>>
    /\ exits' = <<>>
    /\ detector_outcome' = None
    /\ disk' = {}
    /\ bundle' = "none"
    /\ rmtree_log' = {}
    /\ comment_body' = None
    /\ comments' = {}
    /\ labels_to_add' = None
    /\ tracker_failed' = {}
    /\ labels_before' = labels
    /\ UNCHANGED <<runs, objectVars, labels, fmtVars, sideVars>>

Next ==
    \/ StartMention
    \/ StartDirect
    \/ H_Clone
    \/ H_Fetch
    \/ T_Injection
    \/ T_Duplicate
    \/ T_Acquire
    \/ T_Librarian
    \/ T_Snapshot
    \/ T_Fallback
    \/ T_Surgeon
    \/ T_Unlink
    \/ T_Except
    \/ T_Finally
    \/ T_Return
    \/ T_Raise
    \/ H_Rmtree
    \/ H_Format
    \/ H_Labels
    \/ H_Except
    \/ Finish

Spec == Init /\ [][Next]_vars

---------------------------------------------------------------------------
(* format_triage_comment called repeatedly on one outcome.                 *)
(* The outcomes are the dicts triage_issue can return; the clock is the    *)
(* UTC second that datetime.utcnow() reads.                                *)

MaxRenderings == 2

GateResults ==
    {check_prompt_injection(TRUE, d) : d \in DetectorOutcomes}
    \cup {check_prompt_injection(FALSE, DetectorRaises)}

DuplicateResults ==
    {v \in {check_for_duplicates(TRUE, t) :
              t \in DuplicateToolOutcomes(
                     OlderIssues(<<[number |-> 1, created_at |-> 1]>>,
                         TriagedIssue.number, TriagedIssue.created_at))} :
        IsDict(v)}

SurgeonResults ==
    {run_surgeon(TRUE, c, t) : c \in TriageConfigs, t \in SurgeonToolOutcomes}
    \cup {[error |-> "Failed to generate targeted repomix"]}

\* triage_issue, lines 478-493: the outcome of a blocked run.
BlockedOutcomes ==
    {[EmptyResult EXCEPT
        !.prompt_injection_check = Some(g),
        !.error = Some("High-risk prompt injection attempt detected")] :
      g \in {x \in GateResults : ShouldBlock(x)}}

\* triage_issue, lines 495-504: the outcome of a run that found a duplicate.
DuplicateOutcomes ==
    {[EmptyResult EXCEPT
        !.prompt_injection_check = Some(g),
        !.duplicate_check = Some(d)] :
      g \in {x \in GateResults : ~ShouldBlock(x)},
      d \in {x \in DuplicateResults : IsDuplicate(x)}}

\* triage_issue, lines 506-615: the outcomes of a run that went on to the
\* analysis, with or without a Surgeon result.
AnalysisOutcomes ==
    {[EmptyResult EXCEPT
        !.prompt_injection_check = Some(g),
        !.duplicate_check = d,
        !.librarian = Some([relevant_files |-> <<"src/a.py">>]),
        !.surgeon = sg] :
      g \in {x \in GateResults : ~ShouldBlock(x)},
      d \in {None} \cup {Some(x) : x \in {y \in DuplicateResults : ~IsDuplicate(y)}},
      sg \in {None} \cup {Some(x) : x \in SurgeonResults}}

FormatOutcomes == BlockedOutcomes \cup DuplicateOutcomes \cup AnalysisOutcomes

InitFormat ==
    /\ pc = "format"
    /\ runs = 0
    /\ NoLabelling
    /\ NoReviewing
    /\ NoRouting
    /\ NoStaging
    /\ detector_loaded = TRUE
    /\ api_key = TRUE
    /\ labels = {}
    /\ labels_before = {}
    /\ NoRun
    /\ fmt_outcome \in FormatOutcomes
    /\ fmt_clock = 1
    /\ fmt_rendered = <<>>
    /\ NoConcurrentRuns
    /\ NoChunking
    /\ NoColoring
    /\ NoConfiguring

\* A second passes between two invocations.
F_Tick ==
    /\ pc = "format"
    /\ fmt_clock < MaxClock
    /\ fmt_clock' = fmt_clock + 1
    /\ UNCHANGED <<pc, mode, runs, objectVars, triageVars, fsVars, handlerVars,
                   labels, fmt_outcome, fmt_rendered, sideVars>>

\* One invocation of format_triage_comment(fmt_outcome).
F_Render ==
    /\ pc = "format"
    /\ Len(fmt_rendered) < MaxRenderings
    /\ ~FormatRaises(fmt_outcome)
    /\ fmt_rendered' =
           Append(fmt_rendered,
                  [at |-> fmt_clock,
                   text |-> format_triage_comment(fmt_outcome, fmt_clock)])
    /\ UNCHANGED <<pc, mode, runs, objectVars, triageVars, fsVars, handlerVars,
                   labels, fmt_outcome, fmt_clock, sideVars>>

NextFormat == F_Tick \/ F_Render

SpecFormat == InitFormat /\ [][NextFormat]_vars

---------------------------------------------------------------------------
(* Concurrent runs of handle_triage_mention: the files and directories     *)
(* each one makes, uses and removes.                                       *)

ConcurrentRuns == 2
MaxNames == 4

\* A path is a sequence: the name tempfile drew, then the components below
\* it.  A file records the run that created it.
Under(n) == {f \in conc.files : f.path[1] = n}

\* A pipeline that works at one fixed temporary path.
PredictableTempNames == {1}

\* tempfile.mkdtemp, mkstemp and NamedTemporaryFile create a path that did
\* not exist.  Which unused name is drawn makes no difference to a run, so
\* the least one stands for any of them.
FreshTempNames ==
    LET unused == {n \in 1..MaxNames : Under(n) = {}}
    IN  {n \in unused : \A m \in unused : n <= m}

\* The directory or file at path is made by run r, unless it exists.
Created(files, path, r) ==
    IF \E f \in files : f.path = path THEN files
    ELSE files \cup {[path |-> path, by |-> r]}

\* Run r takes one step, which leaves it in state s, the filesystem with
\* the given files, and which removed the files in gone: conc.removed
\* keeps who removed whose files.
ConcStep(r, s, files, gone) ==
    /\ conc' = [run |-> [conc.run EXCEPT ![r] = s],
                files |-> files,
                removed |-> conc.removed
                               \cup {[by |-> r, owner |-> f.by] : f \in gone}]
    /\ UNCHANGED <<mainVars, fmtVars, moreVars, chunking, coloring, configuring>>

InitConcurrent ==
    /\ pc = "concurrent"
    /\ runs = 0
    /\ NoLabelling
    /\ NoReviewing
    /\ NoRouting
    /\ NoStaging
    /\ detector_loaded = TRUE
    /\ api_key = TRUE
    /\ labels = {}
    /\ labels_before = {}
    /\ NoRun
    /\ NoFormatCheck
    /\ NoChunking
    /\ NoColoring
    /\ NoConfiguring
    /\ conc = [run |-> [r \in 1..ConcurrentRuns |->
                           [pc |-> "start", temp_dir |-> 0, tmp |-> 0,
                            snapshot |-> 0]],
               files |-> {}, removed |-> {}]

\* app.py line 545: temp_dir = tempfile.mkdtemp().
C_Mkdtemp(r) ==
    /\ pc = "concurrent"
    /\ conc.run[r].pc = "start"
    /\ \E n \in FreshTempNames :
          ConcStep(r, [conc.run[r] EXCEPT !.pc = "clone", !.temp_dir = n],
                   Created(conc.files, <<n>>, r), {})

\* app.py lines 546-579: git clone into temp_dir/repo; when it fails,
\* rmtree(temp_dir) and return.
C_Clone(r) ==
    /\ pc = "concurrent"
    /\ conc.run[r].pc = "clone"
    /\ LET temp_dir == conc.run[r].temp_dir
       IN  \E cloned \in BOOLEAN :
              IF cloned
              THEN ConcStep(r, [conc.run[r] EXCEPT !.pc = "chunks"],
                            Created(conc.files, <<temp_dir, "repo">>, r), {})
              ELSE ConcStep(r, [conc.run[r] EXCEPT !.pc = "done"],
                            conc.files \ Under(temp_dir), Under(temp_dir))

\* issue_triager.py lines 327-328 and 193-194: the chunk directory is
\* repo_path/repomix-chunks, and the Librarian's output file a
\* NamedTemporaryFile.
C_Chunks(r) ==
    /\ pc = "concurrent"
    /\ conc.run[r].pc = "chunks"
    /\ LET chunks_dir == <<conc.run[r].temp_dir, "repo", "repomix-chunks">>
       IN  \E n \in FreshTempNames :
              ConcStep(r, [conc.run[r] EXCEPT !.pc = "librarian", !.tmp = n],
                       Created(Created(conc.files, chunks_dir, r), <<n>>, r),
                       {})

\* issue_triager.py lines 217-225: os.unlink(output_file); the Librarian
\* names files or does not (lines 550-555).
C_Librarian(r) ==
    /\ pc = "concurrent"
    /\ conc.run[r].pc = "librarian"
    /\ LET output_file == {f \in conc.files : f.path = <<conc.run[r].tmp>>}
       IN  \E found \in BOOLEAN :
              ConcStep(r, [conc.run[r] EXCEPT
                              !.pc = IF found THEN "mkstemp" ELSE "rmtree"],
                       conc.files \ output_file, output_file)

\* issue_triager.py lines 561-562: tempfile.mkstemp for the snapshot.
C_Mkstemp(r) ==
    /\ pc = "concurrent"
    /\ conc.run[r].pc = "mkstemp"
    /\ \E n \in FreshTempNames :
          ConcStep(r, [conc.run[r] EXCEPT !.pc = "surgeon", !.snapshot = n],
                   Created(conc.files, <<n>>, r), {})

\* issue_triager.py lines 592-597: os.unlink(targeted_repomix_path).
C_Unlink(r) ==
    /\ pc = "concurrent"
    /\ conc.run[r].pc = "surgeon"
    /\ LET snapshot == {f \in conc.files : f.path = <<conc.run[r].snapshot>>}
       IN  ConcStep(r, [conc.run[r] EXCEPT !.pc = "rmtree"],
                    conc.files \ snapshot, snapshot)

\* app.py lines 618-624: shutil.rmtree(temp_dir).
C_Rmtree(r) ==
    /\ pc = "concurrent"
    /\ conc.run[r].pc = "rmtree"
    /\ ConcStep(r, [conc.run[r] EXCEPT !.pc = "done"],
                conc.files \ Under(conc.run[r].temp_dir),
                Under(conc.run[r].temp_dir))

NextConcurrent ==
    \E r \in 1..ConcurrentRuns :
        \/ C_Mkdtemp(r)
        \/ C_Clone(r)
        \/ C_Chunks(r)
        \/ C_Librarian(r)
        \/ C_Mkstemp(r)
        \/ C_Unlink(r)
        \/ C_Rmtree(r)

SpecConcurrent == InitConcurrent /\ [][NextConcurrent]_vars

---------------------------------------------------------------------------
(* IssueTriager._generate_repomix_chunks                                   *)

\* Lines of the .omit-triage file.
MaxLines == 2

\* str.strip(chars): the characters of chars are dropped from both ends.
Strip(s, chars) ==
    LET keep == {i \in 1..Len(s) : s[i] \notin chars}
    IN  IF keep = {} THEN <<>>
        ELSE SubSeq(s, CHOOSE i \in keep : \A j \in keep : i <= j,
                       CHOOSE i \in keep : \A j \in keep : j <= i)

Whitespace == {" ", "\t", "\n"}

repomix_chunks ==
    <<"r", "e", "p", "o", "m", "i", "x", "-", "c", "h", "u", "n", "k", "s">>

\* What the root of a cloned repository may hold: the directories src,
\* docs and .git and the file README.
RootEntries ==
    {[name |-> <<"s", "r", "c">>, is_dir |-> TRUE],
     [name |-> <<"d", "o", "c", "s">>, is_dir |-> TRUE],
     [name |-> <<".", "g", "i", "t">>, is_dir |-> TRUE],
     [name |-> <<"R", "E", "A", "D", "M", "E">>, is_dir |-> FALSE]}

\* Lines an .omit-triage file may hold: a name with a trailing or a leading
\* slash, a comment, a blank line, an indented name.
OmitLines ==
    {<<"d", "o", "c", "s", "/">>, <<"/", "s", "r", "c">>,
     <<"#", "s", "r", "c">>, <<>>, <<" ", "d", "o", "c", "s", "\n">>}

\* Lines 332-341: excluded_dirs, from the file when it exists.
excluded_dirs(omit_triage) ==
    IF omit_triage = None THEN {}
    ELSE {Strip(Strip(l, Whitespace), {"/"}) :
            l \in {x \in Range(Get(omit_triage)) :
                      /\ Strip(x, Whitespace) # <<>>
                      /\ ~StartsWith(Strip(x, Whitespace), <<"#">>)}}

\* Lines 344-346: the directories of the root that are not hidden.
root_dirs(entries) ==
    {e.name : e \in {x \in entries : x.is_dir /\ ~StartsWith(x.name, <<".">>)}}

InitChunks ==
    /\ pc = "chunks"
    /\ runs = 0
    /\ NoLabelling
    /\ NoReviewing
    /\ NoRouting
    /\ NoStaging
    /\ detector_loaded = TRUE
    /\ api_key = TRUE
    /\ labels = {}
    /\ labels_before = {}
    /\ NoRun
    /\ NoFormatCheck
    /\ NoConcurrentRuns
    /\ NoColoring
    /\ NoConfiguring
    /\ \E repo \in SUBSET RootEntries,
          omit_triage \in {None} \cup {Some(f) : f \in SeqUpTo(OmitLines, MaxLines)} :
          chunking = [pc |-> "start", repo |-> repo, omit_triage |-> omit_triage,
                      entries |-> repo, excluded |-> {}, todo |-> {},
                      invoked |-> {}, exits |-> {}, returned |-> None]

\* Lines 327-346: the chunk directory is made in the repository root, the
\* exclusions are read and the root is listed.
K_Start ==
    /\ pc = "chunks"
    /\ chunking.pc = "start"
    /\ LET entries == chunking.entries
                          \cup {[name |-> repomix_chunks, is_dir |-> TRUE]}
       IN  chunking' = [chunking EXCEPT
                           !.pc = "loop",
                           !.entries = entries,
                           !.excluded = excluded_dirs(chunking.omit_triage),
                           !.todo = root_dirs(entries)]
    /\ UNCHANGED <<mainVars, fmtVars, moreVars, conc, coloring, configuring>>

\* How one run of the chunking tool ends: exit 0 with a chunk, a nonzero
\* exit, exit 0 with an empty or missing chunk, or an exception of
\* subprocess.run (its timeout, or a tool that cannot be launched).
ChunkExits == {"ok", "nonzero", "empty", "TimeoutExpired"}

\* A loop that any failure of the tool ends.
EndsLoopOnAnyFailure(exit) == exit # "ok"

\* Lines 376-383 and 387-389: a nonzero exit and an empty chunk are logged
\* and the loop goes on; an exception leaves the loop.
EndsLoop(exit) == exit = "TimeoutExpired"

\* Lines 349-383, one turn of the loop, in the order iterdir gives: an
\* excluded directory is skipped; for any other the tool is run.  When the
\* loop is left by an exception, chunks_dir is returned (lines 387-389).
K_Dir ==
    /\ pc = "chunks"
    /\ chunking.pc = "loop"
    /\ \E dir_name \in chunking.todo :
          IF dir_name \in chunking.excluded
          THEN chunking' = [chunking EXCEPT !.todo = @ \ {dir_name}]
          ELSE \E exit \in ChunkExits :
                  chunking' = [chunking EXCEPT
                      !.invoked = @ \cup {dir_name},
                      !.exits = @ \cup {[dir_name |-> dir_name, exit |-> exit]},
                      !.todo = @ \ {dir_name},
                      !.pc = IF EndsLoop(exit) THEN "done" ELSE @,
                      !.returned = IF EndsLoop(exit) THEN Some(repomix_chunks)
                                   ELSE @]
    /\ UNCHANGED <<mainVars, fmtVars, moreVars, conc, coloring, configuring>>

\* Line 385: return chunks_dir.
K_Return ==
    /\ pc = "chunks"
    /\ chunking.pc = "loop"
    /\ chunking.todo = {}
    /\ chunking' = [chunking EXCEPT !.pc = "done",
                                    !.returned = Some(repomix_chunks)]
    /\ UNCHANGED <<mainVars, fmtVars, moreVars, conc, coloring, configuring>>

NextChunks == K_Start \/ K_Dir \/ K_Return

SpecChunks == InitChunks /\ [][NextChunks]_vars

---------------------------------------------------------------------------
(* get_label_color, and the creation of labels in handle_triage_mention.   *)

\* A colouring that gives the default gray to a Type or Severity label
\* whose value it does not know.
get_label_color_gray_unrecognized(label_name) ==
    LET label_lower == Lower(label_name)
    IN  IF StartsWith(label_lower, <<"t", "y", "p", "e">>)
        THEN IF Contains(label_lower, <<"b", "u", "g">>) THEN "d73a4a"
             ELSE IF Contains(label_lower, <<"e", "n", "h", "a", "n", "c", "e", "m", "e", "n", "t">>) THEN "a2eeef"
             ELSE IF Contains(label_lower, <<"f", "e", "a", "t", "u", "r", "e">>) THEN "0e8a16"
             ELSE "ededed"
        ELSE IF StartsWith(label_lower, <<"s", "e", "v", "e", "r", "i", "t", "y">>)
        THEN IF Contains(label_lower, critical) THEN "b60205"
             ELSE IF Contains(label_lower, high) THEN "d93f0b"
             ELSE IF Contains(label_lower, medium) THEN "fbca04"
             ELSE IF Contains(label_lower, low) THEN "0e8a16"
             ELSE "ededed"
        ELSE IF Contains(label_lower, DuplicateLabel) THEN "cfd3d7"
        ELSE IF Contains(label_lower, AiTriaged) THEN "7057ff"
        ELSE IF Contains(label_lower, <<"p", "r", "o", "m", "p", "t", " ", "i", "n", "j", "e", "c", "t", "i", "o", "n">>)
                \/ Contains(label_lower, <<"b", "l", "o", "c", "k", "e", "d">>) THEN "b60205"
        ELSE "ededed"

\* app.py lines 55-95.
get_label_color(label_name) ==
    LET label_lower == Lower(label_name)
    IN  IF StartsWith(label_lower, <<"t", "y", "p", "e">>)
        THEN IF Contains(label_lower, <<"b", "u", "g">>) THEN "d73a4a"
             ELSE IF Contains(label_lower, <<"e", "n", "h", "a", "n", "c", "e", "m", "e", "n", "t">>) THEN "a2eeef"
             ELSE IF Contains(label_lower, <<"f", "e", "a", "t", "u", "r", "e">>) THEN "0e8a16"
             ELSE "1d76db"
        ELSE IF StartsWith(label_lower, <<"s", "e", "v", "e", "r", "i", "t", "y">>)
        THEN IF Contains(label_lower, critical) THEN "b60205"
             ELSE IF Contains(label_lower, high) THEN "d93f0b"
             ELSE IF Contains(label_lower, medium) THEN "fbca04"
             ELSE IF Contains(label_lower, low) THEN "0e8a16"
             ELSE "c5def5"
        ELSE IF Contains(label_lower, DuplicateLabel) THEN "cfd3d7"
        ELSE IF Contains(label_lower, AiTriaged)
                \/ Contains(label_lower, <<"a", "i", "-", "r", "e", "v", "i", "e", "w", "e", "d">>) THEN "7057ff"
        ELSE IF Contains(label_lower, <<"p", "r", "o", "m", "p", "t", " ", "i", "n", "j", "e", "c", "t", "i", "o", "n">>)
                \/ Contains(label_lower, <<"b", "l", "o", "c", "k", "e", "d">>) THEN "b60205"
        ELSE "ededed"

\* The values a report may give after its captions: the categories and
\* levels the colouring knows, and one of each that it does not know.
TypeValues ==
    {BUG, <<"E", "N", "H", "A", "N", "C", "E", "M", "E", "N", "T">>, FEATURE_REQUEST, <<"Q", "U", "E", "S", "T", "I", "O", "N">>}

SeverityValues ==
    {Upper(critical), Upper(high), Upper(medium), Upper(low), <<"U", "N", "K", "N", "O", "W", "N">>}

\* The lists the Label Deriver can produce (lines 686-753).
DerivedLabelLists ==
    {<<PromptInjectionBlocked>>, <<DuplicateLabel, AiTriaged>>}
    \cup {SurgeonLabels([formatted_output |-> <<TypeCaption(t), SeverityCaption(s)>>]) :
             t \in TypeValues \cup {<<>>}, s \in SeverityValues \cup {<<>>}}

InitColors ==
    /\ pc = "colors"
    /\ runs = 0
    /\ NoLabelling
    /\ NoReviewing
    /\ NoRouting
    /\ NoStaging
    /\ detector_loaded = TRUE
    /\ api_key = TRUE
    /\ labels = {}
    /\ labels_before = {}
    /\ NoRun
    /\ NoFormatCheck
    /\ NoConcurrentRuns
    /\ NoChunking
    /\ NoConfiguring
    /\ \E d \in DerivedLabelLists, existing \in {{}, {AiTriaged}} :
          coloring = [pc |-> "loop", labels_to_add |-> d, i |-> 1,
                      existing_repo_labels |-> existing, created |-> {}]

\* Lines 764-779, one turn of the loop: a label the repository lacks is
\* created with its colour, unless create_label raises.
L_Label ==
    /\ pc = "colors"
    /\ coloring.pc = "loop"
    /\ coloring.i <= Len(coloring.labels_to_add)
    /\ LET label_name == coloring.labels_to_add[coloring.i]
       IN  IF label_name \in coloring.existing_repo_labels
           THEN coloring' = [coloring EXCEPT !.i = @ + 1]
           ELSE \E created \in BOOLEAN :
                   coloring' = [coloring EXCEPT
                       !.i = @ + 1,
                       !.existing_repo_labels =
                           IF created THEN @ \cup {label_name} ELSE @,
                       !.created =
                           IF created
                           THEN @ \cup {[name |-> label_name,
                                         color |-> get_label_color(label_name)]}
                           ELSE @]
    /\ UNCHANGED <<mainVars, fmtVars, moreVars, conc, chunking, configuring>>

\* Lines 781-784: issue.add_to_labels(*labels_to_add).
L_Apply ==
    /\ pc = "colors"
    /\ coloring.pc = "loop"
    /\ coloring.i > Len(coloring.labels_to_add)
    /\ coloring' = [coloring EXCEPT !.pc = "done"]
    /\ UNCHANGED <<mainVars, fmtVars, moreVars, conc, chunking, configuring>>

NextColors == L_Label \/ L_Apply

SpecColors == InitColors /\ [][NextColors]_vars

---------------------------------------------------------------------------
(* _load_triage_config and the command run_surgeon builds from it.         *)

\* A dict value of triage.config.json: its 'gemini' and 'analysis' entries,
\* each absent (None), an object, or a value that is not an object.  An
\* object has its 'model' or 'custom_prompt_path' entry absent, empty or
\* set.
GeminiEntries ==
    {None, Some(JsonList)}
    \cup {Some([model |-> m]) : m \in {None, Some(""), Some("gemini-pro")}}

AnalysisEntries ==
    {None, Some(JsonList)}
    \cup {Some([custom_prompt_path |-> p]) :
             p \in {None, Some(""), Some("prompt.md"), Some("/srv/prompt.md")}}

\* What is at repo_path/triage.config.json.
ConfigFiles ==
    {[status |-> "missing"], [status |-> "unparsable"],
     [status |-> "json", value |-> JsonList]}
    \cup {[status |-> "json", value |-> [gemini |-> g, analysis |-> a]] :
             g \in GeminiEntries, a \in AnalysisEntries}

\* {}
EmptyConfig == [gemini |-> None, analysis |-> None]

\* Lines 391-413.
load_triage_config(file) ==
    IF file.status = "json" THEN file.value ELSE EmptyConfig

\* os.path.join(repo_path, prompt_path): an absolute prompt_path replaces
\* repo_path.
path_join(repo_root, prompt_path) ==
    IF prompt_path = "/srv/prompt.md" THEN <<prompt_path>>
    ELSE <<repo_root, prompt_path>>

\* The prompt files that may exist.
PromptFiles == {path_join(CallerRepo, "prompt.md"), path_join(CallerRepo, "/srv/prompt.md")}

\* A command that passes the configured prompt without looking for it.
SurgeonCommandUnchecked(config, repo_root, files) ==
    IF ~IsDict(config) THEN [raises |-> "AttributeError"]
    ELSE IF config.gemini # None /\ ~IsDict(Get(config.gemini))
    THEN [raises |-> "AttributeError"]
    ELSE IF config.analysis # None /\ ~IsDict(Get(config.analysis))
    THEN [raises |-> "AttributeError"]
    ELSE [model |-> IF config.gemini = None THEN None
                    ELSE Get(config.gemini).model,
          custom_prompt |->
              IF config.analysis = None
                 \/ Get(config.analysis).custom_prompt_path = None
              THEN None
              ELSE Some(path_join(repo_root,
                            Get(Get(config.analysis).custom_prompt_path)))]

\* Lines 255-292: the options added to the command of cli.analyze, or the
\* exception of .get on an entry that is not a dict.  An entry that is
\* absent or empty adds nothing.
SurgeonCommand(config, repo_root, files) ==
    IF ~IsDict(config) THEN [raises |-> "AttributeError"]
    ELSE IF config.gemini # None /\ ~IsDict(Get(config.gemini))
    THEN [raises |-> "AttributeError"]
    ELSE IF config.analysis # None /\ ~IsDict(Get(config.analysis))
    THEN [raises |-> "AttributeError"]
    ELSE LET model == IF config.gemini = None THEN None
                      ELSE Get(config.gemini).model
             prompt_path == IF config.analysis = None THEN None
                            ELSE Get(config.analysis).custom_prompt_path
         IN  [model |-> IF model \in {None, Some("")} THEN None ELSE model,
              custom_prompt |->
                  IF prompt_path \in {None, Some("")} THEN None
                  ELSE IF path_join(repo_root, Get(prompt_path)) \in files
                  THEN Some(path_join(repo_root, Get(prompt_path)))
                  ELSE None]

InitConfig ==
    /\ pc = "config"
    /\ runs = 0
    /\ NoLabelling
    /\ NoReviewing
    /\ NoRouting
    /\ NoStaging
    /\ detector_loaded = TRUE
    /\ api_key = TRUE
    /\ labels = {}
    /\ labels_before = {}
    /\ NoRun
    /\ NoFormatCheck
    /\ NoConcurrentRuns
    /\ NoChunking
    /\ NoColoring
    /\ \E file \in ConfigFiles, files \in SUBSET PromptFiles :
          configuring = [pc |-> "load", file |-> file, files |-> files,
                         config |-> None, cmd |-> None, surgeon |-> None]

\* triage_issue line 544: config = self._load_triage_config(repo_path).
G_Load ==
    /\ pc = "config"
    /\ configuring.pc = "load"
    /\ configuring' = [configuring EXCEPT
                          !.pc = "command",
                          !.config = Some(load_triage_config(configuring.file))]
    /\ UNCHANGED <<mainVars, fmtVars, moreVars, conc, chunking, coloring>>

\* run_surgeon lines 255-292: the command is built; an exception in
\* building it is caught at line 313 and returned as the error.
G_Command ==
    /\ pc = "config"
    /\ configuring.pc = "command"
    /\ LET cmd == SurgeonCommand(Get(configuring.config), CallerRepo,
                                 configuring.files)
       IN  IF "raises" \in DOMAIN cmd
           THEN configuring' = [configuring EXCEPT
                                   !.pc = "done",
                                   !.surgeon = Some([error |-> cmd.raises])]
           ELSE configuring' = [configuring EXCEPT
                                   !.pc = "run", !.cmd = Some(cmd)]
    /\ UNCHANGED <<mainVars, fmtVars, moreVars, conc, chunking, coloring>>

\* run_surgeon lines 294-315: the tool is run with the command.
G_Run ==
    /\ pc = "config"
    /\ configuring.pc = "run"
    /\ \E tool \in SurgeonToolOutcomes :
          configuring' = [configuring EXCEPT
                             !.pc = "done",
                             !.surgeon = Some(run_surgeon(TRUE, "default", tool))]
    /\ UNCHANGED <<mainVars, fmtVars, moreVars, conc, chunking, coloring>>

NextConfig == G_Load \/ G_Command \/ G_Run

SpecConfig == InitConfig /\ [][NextConfig]_vars

---------------------------------------------------------------------------
(* Properties.                                                             *)

\* The run is blocked: the gate's own fields, as it returned them.
GateBlocked ==
    /\ result.prompt_injection_check # None
    /\ Get(result.prompt_injection_check).is_injection
    /\ Get(result.prompt_injection_check).risk_level \in {high, critical}

\* The duplicate check reported a duplicate: its own is_duplicate field.
ReportedDuplicate ==
    /\ result.duplicate_check # None
    /\ "is_duplicate" \in DOMAIN Get(result.duplicate_check)
    /\ Get(result.duplicate_check).is_duplicate

\* C1: when the gate reports an injection of high or critical risk, the
\* Librarian and the Surgeon are never invoked in that run, and the labels
\* derived for the run are exactly the one label 'Prompt injection blocked'.
C1_BlockedRunSkipsAnalysis ==
    GateBlocked =>
        /\ "run_librarian" \notin Range(calls)
        /\ "run_surgeon" \notin Range(calls)
        /\ labels_to_add # None =>
               Get(labels_to_add) = <<PromptInjectionBlocked>>

C1_Witness ==
    /\ GateBlocked
    /\ pc = "done"
    /\ labels_to_add = Some(<<PromptInjectionBlocked>>)

\* C2: when the duplicate check returns is_duplicate = true the run ends at
\* once: no clone, Librarian, snapshot tool or Surgeon is invoked and the
\* librarian and surgeon fields of the outcome stay absent.
C2_DuplicateEndsRun ==
    ReportedDuplicate =>
        /\ Range(calls) \cap {"git_clone", "run_librarian", "repomix_targeted",
                              "repomix_fallback", "run_surgeon"} = {}
        /\ result.librarian = None
        /\ result.surgeon = None
        /\ pc \in {"t_return", "h_rmtree", "h_format", "h_labels", "done"}

C2_Witness ==
    /\ ReportedDuplicate
    /\ pc = "done"
    /\ "check_for_duplicates" \in Range(calls)

\* C3: once a run has ended, whatever its outcome, neither the directory the
\* handler created for its clone nor the one triage_issue created remains.
C3_NoTempDirRemains ==
    pc = "done" => disk \cap {TempDir, LocalTempDir} = {}

\* The program points inside triage_issue.
TriagePcs ==
    {"t_injection", "t_duplicate", "t_acquire", "t_librarian", "t_snapshot",
     "t_fallback", "t_surgeon", "t_unlink", "t_except", "t_finally",
     "t_return", "t_raise", "hung"}

\* C4: a repo_path supplied by the caller is never deleted by triage_issue:
\* triage_issue removes no directory at that path, and the directory is on
\* disk throughout the call and after it, on every exit path.
C4_SuppliedPathNeverDeleted ==
    (given_path # None /\ (pc \in TriagePcs \/ (mode = "direct" /\ pc = "done")))
        =>
        /\ \A e \in rmtree_log :
               e.by = "triage_issue" => e.path # Get(given_path)
        /\ Get(given_path) \in disk

C4_Witness ==
    /\ mode = "direct"
    /\ given_path = Some(CallerRepo)
    /\ pc = "done"
    /\ result.librarian # None
    /\ result.error # None
    /\ CallerRepo \in disk

\* C5: when triage_issue returns, the snapshot file it created with mkstemp
\* has been destroyed.
C5_SnapshotDestroyedOnReturn ==
    pc = "t_return" => bundle \in {"none", "missing"}

\* C6 as stated: any two invocations of format_triage_comment on the same
\* outcome, at whatever times, produce the same text.
C6_SameTextAtAnyTimes ==
    \A i, j \in 1..Len(fmt_rendered) :
        fmt_rendered[i].text = fmt_rendered[j].text

\* C6: two invocations of format_triage_comment on the same outcome produce
\* the same text when the outcome renders the complete, the incomplete or
\* the error template, whatever the times; for the blocked and duplicate
\* templates, which print the UTC second of the call, they produce the same
\* text when made within the same second.
C6_SameTextUpToTimestamp ==
    \A i, j \in 1..Len(fmt_rendered) :
        (\/ Template(fmt_outcome) \notin {"blocked", "duplicate"}
         \/ fmt_rendered[i].at = fmt_rendered[j].at)
            => fmt_rendered[i].text = fmt_rendered[j].text

C6_Witness ==
    /\ Len(fmt_rendered) = MaxRenderings
    /\ fmt_rendered[1].at # fmt_rendered[2].at
    /\ Template(fmt_outcome) = "complete"
    /\ fmt_rendered[1].text = fmt_rendered[2].text

\* C7: the issue carries at most one label starting with 'Type :' and at
\* most one starting with 'Severity :', after any sequence of runs.
C7_AtMostOneTypeAndSeverity ==
    /\ Cardinality({l \in labels : IsTypeLabel(l)}) <= 1
    /\ Cardinality({l \in labels : IsSeverityLabel(l)}) <= 1

\* C8 as stated: a label that was on the issue before the run and starts
\* with neither 'Type :' nor 'Severity :' is still on it after label
\* management.
C8_OtherLabelsRemain ==
    (pc = "done" /\ labels_to_add # None) =>
        \A l \in labels_before : ~IsTypeOrSeverityLabel(l) => l \in labels

\* C8: label management removes every label that was on the issue: when the
\* tracker's remove and add calls succeed, the labels of the issue after it
\* are exactly the labels derived in this run.
C8_AllLabelsReplaced ==
    (pc = "done" /\ labels_to_add # None /\ tracker_failed = {}) =>
        labels = Range(Get(labels_to_add))

C8_Witness ==
    /\ pc = "done"
    /\ labels_to_add # None
    /\ tracker_failed = {}
    /\ HelpWanted \in labels_before
    /\ HelpWanted \notin labels
    /\ labels # {}

\* C9: every candidate handed to the duplicate detector by the mention
\* handler was created strictly before the triaged issue and is not the
\* triaged issue itself.
C9_CandidatesAreStrictlyOlder ==
    mode = "mention" =>
        \A i \in 1..Len(existing_issues) :
            /\ existing_issues[i].created_date < TriagedIssue.created_at
            /\ existing_issues[i].issue_id # ToString(TriagedIssue.number)

C9_Witness ==
    /\ mode = "mention"
    /\ existing_issues # <<>>
    /\ "check_for_duplicates" \in Range(calls)

\* The gate ran without a working detector: it was not loaded, or it raised.
DetectorUnavailable ==
    /\ result.prompt_injection_check # None
    /\ \/ ~detector_loaded
       \/ detector_outcome = Some(DetectorRaises)

\* C10: without a working detector the gate reports is_injection = false and
\* risk 'safe' (with disabled = true when the detector was not loaded), the
\* run is not blocked and goes on to the duplicate and analysis stages.
C10_GateFailsOpen ==
    DetectorUnavailable =>
        LET check == Get(result.prompt_injection_check)
        IN  /\ check.is_injection = FALSE
            /\ check.risk_level = safe
            /\ ~detector_loaded =>
                   ("disabled" \in DOMAIN check /\ check.disabled = TRUE)
            /\ result.error # Some("High-risk prompt injection attempt detected")
            /\ \/ pc = "t_duplicate"
               \/ "check_for_duplicates" \in Range(calls)
               \/ result.duplicate_check # None
               \/ pc = "t_acquire"
               \/ repo_path # None

C10_Witness ==
    /\ detector_outcome = Some(DetectorRaises)
    /\ result.prompt_injection_check # None
    /\ "run_librarian" \in Range(calls)

\* The program points after triage_issue has returned.
ReturnedPcs == {"t_return", "h_rmtree", "h_format", "h_labels", "done"}

\* The run has gone past the Security Gate: it is at the duplicate check, or
\* has done it, or is at or past the repository acquisition.
PastGate ==
    \/ pc = "t_duplicate"
    \/ "check_for_duplicates" \in Range(calls)
    \/ result.duplicate_check # None
    \/ pc = "t_acquire"
    \/ repo_path # None

\* The outcome of a run that ended at the Security Gate.
BlockedTerminal ==
    /\ result.error = Some("High-risk prompt injection attempt detected")
    /\ result.duplicate_check = None
    /\ result.librarian = None
    /\ result.surgeon = None
    /\ pc \in ReturnedPcs
    /\ ~PastGate

\* C11: once the gate has answered, the run ends blocked if and only if the
\* answer is is_injection = true with risk 'high' or 'critical'; with any
\* other answer the run goes on past the gate.
C11_BlockedIffHighRiskInjection ==
    result.prompt_injection_check # None =>
        /\ GateBlocked <=> BlockedTerminal
        /\ ~GateBlocked => PastGate
        /\ GateBlocked <=>
               result.error = Some("High-risk prompt injection attempt detected")

C11_Witness ==
    /\ result.prompt_injection_check # None
    /\ Get(result.prompt_injection_check).is_injection
    /\ Get(result.prompt_injection_check).risk_level = medium
    /\ "run_librarian" \in Range(calls)

\* C12 as stated: whenever a clone has been performed in the run, by the
\* mention handler or by triage_issue, the gate has answered without
\* blocking and the duplicate check has not reported a duplicate.
C12_NoCloneBeforeGateAndDuplicates ==
    ("h_git_clone" \in Range(calls) \/ "git_clone" \in Range(calls)) =>
        /\ result.prompt_injection_check # None
        /\ ~GateBlocked
        /\ ~ReportedDuplicate

\* C12: the clone of triage_issue itself is performed only after the gate
\* has answered without blocking and the duplicate check, when there are
\* candidates, has answered without reporting a duplicate, so a call that
\* ends blocked or duplicate has made no clone of its own; the mention
\* handler has cloned the repository before it calls triage_issue, whatever
\* the gate and the duplicate check then answer.
C12_CloneOrder ==
    /\ "git_clone" \in Range(calls) =>
           /\ result.prompt_injection_check # None
           /\ ~GateBlocked
           /\ existing_issues # <<>> => result.duplicate_check # None
           /\ ~ReportedDuplicate
    /\ (mode = "mention" /\ pc \in TriagePcs) => "h_git_clone" \in Range(calls)

C12_Witness ==
    /\ "git_clone" \in Range(calls)
    /\ "check_for_duplicates" \in Range(calls)
    /\ result.duplicate_check # None

\* The deriver's blocked case, on the gate's fields: the risk level is
\* compared in lower case.
DeriverBlocked ==
    /\ result.prompt_injection_check # None
    /\ Get(result.prompt_injection_check).is_injection
    /\ Lower(Get(result.prompt_injection_check).risk_level) \in {high, critical}

\* The outcome carries a Surgeon report.
HasReport ==
    /\ result.surgeon # None
    /\ "error" \notin DOMAIN Get(result.surgeon)
    /\ "formatted_output" \in DOMAIN Get(result.surgeon)

\* The labels of the normal-analysis case: at most one Type label and at
\* most one Severity label, then 'ai-triaged'.
IsAnalysisLabels(d) ==
    /\ Len(d) >= 1
    /\ d[Len(d)] = AiTriaged
    /\ \A i \in 1..(Len(d) - 1) : IsTypeOrSeverityLabel(d[i])
    /\ Cardinality({i \in 1..Len(d) : IsTypeLabel(d[i])}) <= 1
    /\ Cardinality({i \in 1..Len(d) : IsSeverityLabel(d[i])}) <= 1

\* C13: the labels derived for an outcome are those of the first case that
\* applies and of no other: 'Prompt injection blocked' alone when blocked,
\* else 'duplicate' and 'ai-triaged' when a duplicate, else the Type and
\* Severity labels of the report and 'ai-triaged', else none.
C13_LabelPrecedence ==
    labels_to_add # None =>
        LET d == Get(labels_to_add)
        IN  IF DeriverBlocked THEN d = <<PromptInjectionBlocked>>
            ELSE IF ReportedDuplicate THEN d = <<DuplicateLabel, AiTriaged>>
            ELSE IF HasReport THEN IsAnalysisLabels(d)
            ELSE d = <<>>

C13_Witness ==
    /\ labels_to_add # None
    /\ ~DeriverBlocked
    /\ result.duplicate_check # None
    /\ HasReport
    /\ Len(Get(labels_to_add)) = 3
    /\ IsAnalysisLabels(Get(labels_to_add))

\* The template a comment text was rendered from, read off the text.
RendersBlocked(body) ==
    /\ Len(body) >= 3
    /\ body[3] = Lit("Security Alert: High-Risk Prompt Injection Detected")

RendersDuplicate(body) ==
    /\ Len(body) >= 2
    /\ body[2] = Lit("Duplicate Issue Detected")

RendersIncompleteOrError(body) ==
    /\ Len(body) = 3
    /\ body[1] \in {Lit("Analysis Incomplete"), Lit("Analysis Failed")}
    /\ body[3] = Lit("Powered by Ansieyes")

RendersComplete(body) ==
    /\ HasReport
    /\ body = ReplaceBanner(Get(result.surgeon).formatted_output)

\* C14: the comment of a run is rendered from exactly one template, the
\* one of the case the label deriver took: the blocked template exactly
\* with the blocked label, the duplicate template exactly with the duplicate
\* labels, the report exactly with the normal-analysis labels, and the
\* incomplete or error template exactly when no label is derived.
C14_TemplateFollowsLabelPrecedence ==
    (comment_body # None /\ labels_to_add # None) =>
        LET body == Get(comment_body)
            d == Get(labels_to_add)
        IN  /\ RendersBlocked(body) <=> d = <<PromptInjectionBlocked>>
            /\ RendersDuplicate(body) <=> d = <<DuplicateLabel, AiTriaged>>
            /\ RendersComplete(body) <=> IsAnalysisLabels(d)
            /\ RendersIncompleteOrError(body) <=> d = <<>>
            /\ Cardinality({t \in {"blocked", "duplicate", "complete", "other"} :
                   \/ t = "blocked" /\ RendersBlocked(body)
                   \/ t = "duplicate" /\ RendersDuplicate(body)
                   \/ t = "complete" /\ RendersComplete(body)
                   \/ t = "other" /\ RendersIncompleteOrError(body)}) = 1

C14_Witness ==
    /\ comment_body # None
    /\ labels_to_add = Some(<<DuplicateLabel, AiTriaged>>)
    /\ RendersDuplicate(Get(comment_body))

\* The clone of triage_issue ended with this exception.
CloneEnded(exit) ==
    \E i \in 1..Len(exits) : exits[i] = [tool |-> "git_clone", exit |-> exit]

\* The clone of triage_issue failed, by a nonzero exit or by its timeout.
CloneFailed == CloneEnded("CalledProcessError") \/ CloneEnded("TimeoutExpired")

\* C15: when the clone of triage_issue exits nonzero or exceeds its timeout,
\* the call returns at once with a top-level error naming the failure: the
\* Librarian, the snapshot tool and the Surgeon are not invoked, and the
\* directory made for the clone is gone when the call returns.
C15_CloneFailureEndsRun ==
    CloneFailed =>
        /\ pc \in ReturnedPcs
        /\ CloneEnded("CalledProcessError") =>
               result.error = Some("Failed to clone repository")
        /\ CloneEnded("TimeoutExpired") =>
               result.error = Some("Repository clone timeout")
        /\ Range(calls) \cap {"run_librarian", "repomix_targeted",
                              "repomix_fallback", "run_surgeon"} = {}
        /\ result.librarian = None
        /\ result.surgeon = None
        /\ LocalTempDir \notin disk
        /\ [by |-> "triage_issue", path |-> LocalTempDir] \in rmtree_log

C15_Witness ==
    /\ CloneEnded("TimeoutExpired")
    /\ pc = "done"
    /\ result.error = Some("Repository clone timeout")
    /\ LocalTempDir \notin disk

\* The Librarian returned an empty list of relevant files.
EmptyFileList ==
    /\ result.librarian # None
    /\ "relevant_files" \in DOMAIN Get(result.librarian)
    /\ Get(result.librarian).relevant_files = <<>>

\* The gate's risk level is one of the documented lower-case values
\* (check_prompt_injection, line 69).
DocumentedRiskLevel ==
    /\ result.prompt_injection_check # None
    /\ Get(result.prompt_injection_check).risk_level
           \in {safe, low, medium, high, critical}

IsRepomix(e) == e.tool \in {"repomix_targeted", "repomix_fallback"}
SnapshotAttempts == SelectSeq(exits, IsRepomix)

\* C17: the snapshot tool runs first on the Librarian's file list; the
\* full-repository fallback runs, once, exactly when that first attempt
\* exited nonzero or timed out.  So the tool runs at most twice in a run
\* and the fallback never follows a successful first attempt.
C17_OneFallbackAfterFailureOnly ==
    LET a == SnapshotAttempts
    IN  /\ Len(a) <= 2
        /\ Len(a) >= 1 => a[1].tool = "repomix_targeted"
        /\ Len(a) = 2 =>
               /\ a[2].tool = "repomix_fallback"
               /\ a[1].exit \in {"CalledProcessError", "TimeoutExpired"}
        /\ (Len(a) = 1 /\ a[1].exit \in {"CalledProcessError", "TimeoutExpired"})
               => pc = "t_fallback"
        /\ (Len(a) >= 1 /\ a[1].exit = "ok") => Len(a) = 1
        /\ Len(a) = Cardinality({i \in 1..Len(calls) :
               calls[i] \in {"repomix_targeted", "repomix_fallback"}})

C17_Witness ==
    /\ Len(SnapshotAttempts) = 2
    /\ SnapshotAttempts[1] = [tool |-> "repomix_targeted", exit |-> "TimeoutExpired"]
    /\ SnapshotAttempts[2] = [tool |-> "repomix_fallback", exit |-> "ok"]
    /\ pc = "done"

\* C18: when both snapshot attempts have been made and the bundle is missing
\* or empty, the Surgeon is not invoked and the surgeon result carries the
\* error 'Failed to generate targeted repomix'.
C18_EmptyBundleGivesSnapshotError ==
    (/\ Len(SnapshotAttempts) = 2
     /\ bundle \in {"missing", "empty"}
     /\ pc \in {"t_unlink", "t_except"})
        =>
        /\ "run_surgeon" \notin Range(calls)
        /\ result.surgeon = Some([error |-> "Failed to generate targeted repomix"])

\* How the Surgeon's invocation of this run went, if there was one.
SurgeonExits ==
    {exits[i].exit : i \in {j \in 1..Len(exits) : exits[j].tool = "run_surgeon"}}

\* C19: run_surgeon never raises: once its invocation is over the
\* run is past the Surgeon stage with a surgeon result and no exception;
\* every failure (no API key, malformed configuration, a tool that cannot
\* be launched, exits nonzero or writes no output file) gives a result
\* with 'error', a report gives one with 'formatted_output', and no result
\* has both.
C19_SurgeonNeverRaises ==
    ("run_surgeon" \in Range(calls) /\ pc # "hung") =>
        /\ pc \in {"t_unlink", "t_finally"} \cup ReturnedPcs
        /\ exc = None
        /\ result.error = None
        /\ result.surgeon # None
        /\ LET keys == DOMAIN Get(result.surgeon)
           IN  /\ ("error" \in keys) # ("formatted_output" \in keys)
               /\ SurgeonExits \cap {"no_api_key", "malformed_config",
                      "launch_error", "nonzero", "no_output_file"} # {}
                      => "error" \in keys
               /\ SurgeonExits = {"ok"} => "formatted_output" \in keys

C19_Witness ==
    /\ SurgeonExits = {"malformed_config"}
    /\ result.surgeon = Some([error |-> "AttributeError"])
    /\ pc = "t_return"

\* C20: triage_issue never raises: whatever stage or tool fails, the call
\* returns its result.
C20_TriageNeverRaises ==
    pc # "t_raise"


\* C21: every mention run that started (its processing comment was posted
\* and the handler's clone attempted) ends with an explanatory comment on
\* the issue: the result comment, or the clone error comment.
C21_EveryRunLeavesResultComment ==
    (pc = "done" /\ mode = "mention" /\ calls # <<>>) =>
        comments \cap {"result", "clone_error"} # {}


\* C22: every external-tool invocation of a run is bounded by a timeout,
\* so no run stays in a tool invocation that never returns.
C22_NoRunWaitsForeverOnATool ==
    /\ pc # "hung"
    /\ \A i \in 1..Len(exits) : exits[i].exit # "never_returns"


\* The stage calls of triage_issue, in the order of its text (lines
\* 478-590).
StageOrder ==
    <<"check_prompt_injection", "check_for_duplicates", "git_clone",
      "run_librarian", "repomix_targeted", "repomix_fallback", "run_surgeon">>

IsStageCall(c) == c \in Range(StageOrder)

StageRank(c) == CHOOSE i \in 1..Len(StageOrder) : StageOrder[i] = c

C24_OutcomeKindsExclusive ==
    /\ ~(GateBlocked /\ ReportedDuplicate)
    /\ (result.librarian # None \/ result.surgeon # None) =>
           (~GateBlocked /\ ~ReportedDuplicate)
    /\ GateBlocked => result.duplicate_check = None

C24_Witness ==
    /\ pc = "t_return"
    /\ result.prompt_injection_check # None
    /\ Get(result.prompt_injection_check).is_injection
    /\ result.duplicate_check # None
    /\ result.librarian # None
    /\ result.surgeon # None


\* The tool of the given stage ended with the given exit in this run.
ToolEnded(tool, exit) ==
    \E i \in 1..Len(exits) : exits[i] = [tool |-> tool, exit |-> exit]

\* C25: when the duplicate-check tool exits nonzero, check_for_duplicates
\* returns is_duplicate = false with an error and the run goes on to the
\* repository; when the Librarian tool exits nonzero, run_librarian returns
\* an empty relevant_files with an error; neither call raises.
C25_ToolFailureCapturedInStageResult ==
    /\ ToolEnded("check_for_duplicates", "nonzero") =>
           /\ result.duplicate_check # None
           /\ LET d == Get(result.duplicate_check)
              IN  /\ DOMAIN d = {"is_duplicate", "error"}
                  /\ d.is_duplicate = FALSE
           /\ \/ pc = "t_acquire"
              \/ repo_path # None
              \/ "git_clone" \in Range(calls)
           /\ pc = "t_raise" => "git_clone" \in Range(calls)
    /\ ToolEnded("run_librarian", "nonzero") =>
           /\ result.librarian # None
           /\ LET l == Get(result.librarian)
              IN  /\ DOMAIN l = {"relevant_files", "error"}
                  /\ l.relevant_files = <<>>
           /\ exc = None
           /\ pc \in {"t_finally"} \cup ReturnedPcs

C25_Witness ==
    /\ ToolEnded("check_for_duplicates", "nonzero")
    /\ ToolEnded("run_librarian", "nonzero")
    /\ pc = "t_return"


\* The paths run r is working with at its position.
InUse(r) ==
    LET s == conc.run[r]
    IN  (IF s.pc \in {"clone", "chunks", "librarian", "mkstemp", "surgeon",
                      "rmtree"}
         THEN {<<s.temp_dir>>} ELSE {})
        \cup (IF s.pc \in {"chunks", "librarian", "mkstemp", "surgeon",
                            "rmtree"}
              THEN {<<s.temp_dir, "repo">>} ELSE {})
        \cup (IF s.pc \in {"librarian", "mkstemp", "surgeon", "rmtree"}
              THEN {<<s.temp_dir, "repo", "repomix-chunks">>} ELSE {})
        \cup (IF s.pc = "librarian" THEN {<<s.tmp>>} ELSE {})
        \cup (IF s.pc = "surgeon" THEN {<<s.snapshot>>} ELSE {})

\* C26: two concurrent runs share no pipeline artifact: the clone
\* directory, chunk directory, snapshot file and stage temp file a run is
\* working with exist and were created by that run, no path is in use by
\* two runs, and a run removes only files it created itself.
C26_RunsShareNoArtifacts ==
    pc = "concurrent" =>
        /\ \A r \in 1..ConcurrentRuns : \A p \in InUse(r) :
               [path |-> p, by |-> r] \in conc.files
        /\ \A r1, r2 \in 1..ConcurrentRuns :
               r1 # r2 => InUse(r1) \cap InUse(r2) = {}
        /\ \A x \in conc.removed : x.owner = x.by

C26_Witness ==
    /\ pc = "concurrent"
    /\ conc.run[1].pc = "surgeon"
    /\ conc.run[2].pc = "librarian"
    /\ \E x \in conc.removed : x.by = 1


\* C27: when _generate_repomix_chunks returns, the directories it ran the
\* chunking tool for are exactly the top-level directories of the
\* repository that are not hidden and not named in the exclusion file.
C27_ChunkedDirsAreRepoDirsNotExcluded ==
    (pc = "chunks" /\ chunking.pc = "done") =>
        chunking.invoked =
            root_dirs(chunking.repo) \ excluded_dirs(chunking.omit_triage)


\* The normalization the claim describes: underscores to spaces, every
\* word title-cased.
TitleCased(value) == Title(ReplaceUnderscores(Lower(value)))

\* C28: in the normal-analysis case, a report with a Type caption gives
\* the label 'Type : ' followed by its value with underscores replaced by
\* spaces and every word title-cased, a report with a Severity caption
\* gives 'Severity : ' followed by its value normalized the same way, and
\* a report without a caption gives no label of that kind.
C28_TypeAndSeverityTitleCased ==
    (labels_to_add # None /\ ~DeriverBlocked /\ ~ReportedDuplicate
        /\ HasReport) =>
        LET text == Get(result.surgeon).formatted_output
            type_match == FirstCaption(text, "type", 1)
            severity_match == FirstCaption(text, "severity", 1)
            d == Get(labels_to_add)
        IN  /\ {l \in Range(d) : IsTypeLabel(l)} =
                   (IF type_match = None THEN {}
                    ELSE {TypePrefix \o <<" ">> \o TitleCased(Get(type_match))})
            /\ {l \in Range(d) : IsSeverityLabel(l)} =
                   (IF severity_match = None THEN {}
                    ELSE {SeverityPrefix \o <<" ">>
                             \o TitleCased(Get(severity_match))})


\* The colour of each label the Label Deriver can produce, by the category
\* or level it was built from; other is the colour of a Type label and of
\* a Severity label whose value is not one of those.
ColorTable(name, other_type, other_severity) ==
    CASE name = TypeLabel(Lower(BUG)) -> "d73a4a"
      [] name = TypeLabel(<<"e", "n", "h", "a", "n", "c", "e", "m", "e", "n", "t">>) -> "a2eeef"
      [] name = TypeLabel(Lower(FEATURE_REQUEST)) -> "0e8a16"
      [] name = SeverityLabel(critical) -> "b60205"
      [] name = SeverityLabel(high) -> "d93f0b"
      [] name = SeverityLabel(medium) -> "fbca04"
      [] name = SeverityLabel(low) -> "0e8a16"
      [] name = DuplicateLabel -> "cfd3d7"
      [] name = PromptInjectionBlocked -> "b60205"
      [] name = AiTriaged -> "7057ff"
      [] name = TypeLabel(<<"q", "u", "e", "s", "t", "i", "o", "n">>) -> other_type
      [] name = SeverityLabel(<<"u", "n", "k", "n", "o", "w", "n">>) -> other_severity

\* C29 as stated: every label created gets the colour of its category:
\* bug red, enhancement light blue, feature green, severity critical red,
\* high orange, medium yellow, low green, 'duplicate' gray, 'Prompt
\* injection blocked' dark red, and a Type or Severity label with an
\* unrecognized value the neutral gray of an unrecognized label.
C29_UnrecognizedValuesGray ==
    pc = "colors" =>
        \A c \in coloring.created :
            c.color = ColorTable(c.name, "ededed", "ededed")

\* C29: every label created gets the colour of its category, as above,
\* except that a Type label with an unrecognized value is blue (1d76db)
\* and a Severity label with an unrecognized value light blue (c5def5);
\* 'ai-triaged' is purple.
C29_ColorsByCategory ==
    pc = "colors" =>
        \A c \in coloring.created :
            c.color = ColorTable(c.name, "1d76db", "c5def5")

C29_Witness ==
    /\ pc = "colors"
    /\ coloring.pc = "done"
    /\ [name |-> TypeLabel(<<"q", "u", "e", "s", "t", "i", "o", "n">>), color |-> "1d76db"] \in coloring.created
    /\ [name |-> SeverityLabel(<<"u", "n", "k", "n", "o", "w", "n">>), color |-> "c5def5"] \in coloring.created
    /\ [name |-> AiTriaged, color |-> "7057ff"] \in coloring.created


ShortCircuitedAtGate ==
    /\ result.duplicate_check = None
    /\ result.librarian = None
    /\ result.surgeon = None

\* C31: whenever the comment of a run is the blocked template, or its derived
\* labels hold 'Prompt injection blocked', the outcome of triage_issue has
\* no duplicate_check, librarian or surgeon field: the run ended at the
\* Security Gate, whatever the letter case of the detector's risk level.
C31_BlockedRenderingMeansGateShortCircuit ==
    /\ (comment_body # None /\ RendersBlocked(Get(comment_body))) =>
           ShortCircuitedAtGate
    /\ (labels_to_add # None
            /\ PromptInjectionBlocked \in Range(Get(labels_to_add))) =>
           ShortCircuitedAtGate

---------------------------------------------------------------------------
(* Label management of handle_triage_mention, for runs on the same issue   *)
(* whose tracker calls interleave.                                         *)

\* Runs of handle_triage_mention on the same issue at the same time.
LabelRuns == 2

\* The other specifications' variables while a side specification runs.
SideInit(tag) ==
    /\ pc = tag
    /\ runs = 0
    /\ detector_loaded = TRUE
    /\ api_key = TRUE
    /\ labels = {}
    /\ labels_before = {}
    /\ NoRun
    /\ NoFormatCheck
    /\ NoConcurrentRuns
    /\ NoChunking
    /\ NoColoring
    /\ NoConfiguring

\* What the Label Deriver (lines 686-753) makes of the outcomes of the runs:
\* blocked, duplicate, two different reports, and no report.
InterleavedLabelLists ==
    {<<PromptInjectionBlocked>>,
     <<DuplicateLabel, AiTriaged>>,
     SurgeonLabels([formatted_output |->
                       <<TypeCaption(BUG), SeverityCaption(Upper(high))>>]),
     SurgeonLabels([formatted_output |->
                       <<TypeCaption(FEATURE_REQUEST), SeverityCaption(Upper(low))>>]),
     <<>>}

InitLabels ==
    /\ SideInit("labels")
    /\ NoReviewing
    /\ NoRouting
    /\ NoStaging
    /\ \E on_issue \in InitialLabelSets :
          labelling =
              [pc |-> "on", issue |-> on_issue,
               run |-> [r \in 1..LabelRuns |->
                           [pc |-> "fetch", existing_labels |-> <<>>, i |-> 1,
                            labels_to_add |-> <<>>, raised |-> {}]]]

\* One tracker call of run r: the labelling state after it.
LabelStep(next) ==
    /\ pc = "labels"
    /\ labelling.pc = "on"
    /\ labelling' = next
    /\ UNCHANGED <<mainVars, fmtVars, conc, chunking, coloring, configuring,
                   reviewing, routing, staging>>

\* Line 515, repo.get_issue: the issue object of the run holds the labels
\* the issue carries at that moment; line 674 reads them from that object.
B_Fetch(r) ==
    /\ labelling.run[r].pc = "fetch"
    /\ LabelStep([labelling EXCEPT
           !.run[r].pc = "remove",
           !.run[r].existing_labels =
               LabelsToRemove(LabelList(labelling.issue))])

\* Lines 673-684, one issue.remove_from_labels call: the tracker removes
\* the label, or the call raises, which ends the loop.  The tracker
\* refuses to remove a label the issue does not carry.
B_Remove(r) ==
    /\ labelling.run[r].pc = "remove"
    /\ labelling.run[r].i <= Len(labelling.run[r].existing_labels)
    /\ LET label == labelling.run[r].existing_labels[labelling.run[r].i]
       IN  \E removed \in BOOLEAN :
              /\ removed => label \in labelling.issue
              /\ LabelStep(
                    IF removed
                    THEN [labelling EXCEPT !.issue = @ \ {label},
                                           !.run[r].i = @ + 1]
                    ELSE [labelling EXCEPT
                             !.run[r].pc = "add",
                             !.run[r].raised = @ \cup {"remove_from_labels"}])

\* Lines 686-753: the loop is over and labels_to_add is derived.
B_Derive(r) ==
    /\ labelling.run[r].pc = "remove"
    /\ labelling.run[r].i > Len(labelling.run[r].existing_labels)
    /\ LabelStep([labelling EXCEPT !.run[r].pc = "add"])

\* Lines 755-790: labels_to_add, when not empty, is applied with one
\* issue.add_to_labels call, which may raise.
B_Add(r) ==
    /\ labelling.run[r].pc = "add"
    /\ \E derived \in InterleavedLabelLists, added \in BOOLEAN :
          /\ derived = <<>> => added
          /\ LabelStep([labelling EXCEPT
                 !.issue = IF added THEN @ \cup Range(derived) ELSE @,
                 !.run[r].pc = "done",
                 !.run[r].labels_to_add = derived,
                 !.run[r].raised =
                     IF added THEN @ ELSE @ \cup {"add_to_labels"}])

NextLabels ==
    \E r \in 1..LabelRuns :
        \/ B_Fetch(r)
        \/ B_Remove(r)
        \/ B_Derive(r)
        \/ B_Add(r)

SpecLabels == InitLabels /\ [][NextLabels]_vars

\* C32: when two runs on the same issue have both finished their label
\* management, in whatever order their tracker calls interleaved and with
\* no tracker call having raised, the issue carries at most one label
\* starting with 'Type :' and at most one starting with 'Severity :'.
C32_InterleavedRunsLeaveOneTypeOneSeverity ==
    (labelling.pc = "on"
        /\ \A r \in 1..LabelRuns :
              labelling.run[r].pc = "done" /\ labelling.run[r].raised = {}) =>
        /\ Cardinality({l \in labelling.issue : IsTypeLabel(l)}) <= 1
        /\ Cardinality({l \in labelling.issue : IsSeverityLabel(l)}) <= 1

---------------------------------------------------------------------------
(* webhook, the issue_comment events it routes, handle_pr_review_mention   *)
(* and PRReviewer.review_pr.                                               *)

\* Files changed by the pull request.
MaxFiles == 2

\* Python values the handler holds in review_text: a dict or a str.
Dict(items) == [type |-> "dict", items |-> items]
Str(chars) == [type |-> "str", chars |-> chars]
Truthy(v) == IF v.type = "dict" THEN v.items # <<>> ELSE v.chars # <<>>

ChangedFiles == [i \in 1..MaxFiles |-> [filename |-> <<"file", i>>]]

\* model.generate_content: it raises, or answers with a text that is empty,
\* names no changed file, or names the first changed file.
GenerateOutcomes ==
    {[raises |-> TRUE],
     [raises |-> FALSE, text |-> <<>>, names_file |-> FALSE],
     [raises |-> FALSE, text |-> <<"review">>, names_file |-> FALSE],
     [raises |-> FALSE, text |-> <<"review">>, names_file |-> TRUE]}

\* pr_reviewer.py lines 232-277.
parse_review(gen, file_changes) ==
    Dict([summary |-> gen.text,
          file_comments |->
              IF gen.names_file /\ file_changes # <<>>
              THEN <<[path |-> file_changes[1].filename, comment |-> gen.text]>>
              ELSE <<>>])

\* A review_pr that answers with the text of the review.
review_pr_text(model, gen, file_changes) ==
    IF ~model THEN Str(<<>>)
    ELSE IF gen.raises THEN Str(<<"Error generating review">>)
    ELSE Str(gen.text)

\* pr_reviewer.py lines 150-189: {} without a model, the parsed review, or
\* the error dictionary when anything raised.
review_pr(model, gen, file_changes) ==
    IF ~model THEN Dict(<<>>)
    ELSE IF gen.raises
    THEN Dict([summary |-> <<"Error generating review">>, file_comments |-> <<>>])
    ELSE parse_review(gen, file_changes)


\* Deliveries to /webhook that are not the bot's own comments.
MaxEvents == 2

ansieyes_triage == <<"\\ansieyes_triage">>
ansieyes_prreview == <<"\\ansieyes_prreview">>

\* s.endswith(p)
EndsWith(s, p) ==
    Len(s) >= Len(p) /\ SubSeq(s, Len(s) - Len(p) + 1, Len(s)) = p

\* Comment bodies: the two commands, bare, wrapped in white space and with
\* more text, and a plain remark.
Bodies ==
    {ansieyes_triage,
     <<" ">> \o ansieyes_triage \o <<"\n">>,
     ansieyes_triage \o <<" ", "please">>,
     ansieyes_prreview,
     <<"thanks">>}

\* Logins: a person, the App's own login, and a person whose login only
\* holds '[bot]'.
BotLogin == <<"ansieyes", "[bot]">>
Logins == {<<"alice">>, BotLogin, <<"[bot]", "fan">>}

\* The payload of a delivery, with its X-GitHub-Event header and whether
\* its signature verifies.
Event(type, action, body, login, installation, is_pull_request, signed) ==
    [type |-> type, action |-> action, body |-> body, login |-> login,
     installation_id |-> installation, is_pull_request |-> is_pull_request,
     signed |-> signed]

\* Deliveries: issue comments created or edited and pull requests
\* opened, signed and from an installation; and a command left by a person
\* in a delivery that is unsigned or names no installation.
Events ==
    {Event(k[1], k[2], b, l, TRUE, p, TRUE) :
        k \in {<<"issue_comment", "created">>, <<"issue_comment", "edited">>,
               <<"pull_request", "opened">>},
        b \in Bodies, l \in Logins, p \in BOOLEAN}
    \cup {Event("issue_comment", "created", b, <<"alice">>, i, p, s) :
             b \in {ansieyes_triage, ansieyes_prreview},
             i \in BOOLEAN, p \in BOOLEAN, s \in BOOLEAN}

\* The deliveries GitHub makes for a comment the App has posted.
BotEvents ==
    {Event("issue_comment", "created", b, BotLogin, TRUE, p, TRUE) :
        b \in Bodies, p \in BOOLEAN}

\* A webhook without the check of the comment's author.
IsBotAuthorNever(login) == FALSE

\* Lines 226-229: comment_author.endswith('[bot]').
IsBotAuthor(login) == EndsWith(login, <<"[bot]">>)

\* A webhook that looks for the command anywhere in the body.
IsCommandAnywhere(body, command) == Contains(body, command)

\* Lines 238 and 246: the body, stripped, is exactly the command.
IsCommand(body, command) == Strip(body, Whitespace) = command

\* webhook(), lines 165-257: the response and the function it calls.
Route(e) ==
    IF ~e.signed THEN [status |-> 401, handler |-> "none"]
    ELSE IF e.type = "pull_request"
    THEN IF e.action \in {"opened", "synchronize", "reopened"}
         THEN IF ~e.installation_id THEN [status |-> 400, handler |-> "none"]
              ELSE [status |-> 200, handler |-> "review_pr"]
         ELSE [status |-> 200, handler |-> "none"]
    ELSE IF e.type = "issue_comment"
    THEN IF e.action = "created"
         THEN IF IsBotAuthor(e.login)
              THEN [status |-> 200, handler |-> "none"]
              ELSE IF ~e.installation_id
              THEN [status |-> 400, handler |-> "none"]
              ELSE IF IsCommand(e.body, ansieyes_triage)
              THEN [status |-> 200, handler |-> "handle_triage_mention"]
              ELSE IF IsCommand(e.body, ansieyes_prreview)
              THEN [status |-> 200, handler |-> "handle_pr_review_mention"]
              ELSE [status |-> 200, handler |-> "none"]
         ELSE [status |-> 200, handler |-> "none"]
    ELSE [status |-> 200, handler |-> "none"]

\* handle_triage_mention up to its processing comment, lines 495-546: what
\* the call did and the comments it posted.  The pipeline it starts on an
\* issue is the run of StartMention and the actions after it.
TriageMentionOutcomes(is_pull_request) ==
    {[did |-> "no_client", comments |-> 0],
     [did |-> "GithubException", comments |-> 0]}
    \cup (IF is_pull_request
          THEN {[did |-> "invalid_command", comments |-> 1]}
          ELSE {[did |-> "pipeline", comments |-> n] : n \in 1..2})

NoReview(model) ==
    [pc |-> "idle", is_pull_request |-> FALSE, model |-> model,
     file_changes |-> <<>>, review_text |-> None, created |-> <<>>,
     on_issue |-> {}, calls |-> <<>>, raised |-> None]

InitWebhook ==
    /\ SideInit("webhook")
    /\ NoLabelling
    /\ NoStaging
    /\ \E model \in BOOLEAN : reviewing = NoReview(model)
    /\ routing = [pc |-> "listen", received |-> 0, pending |-> 0,
                  event |-> None, response |-> 0, handler |-> "none",
                  triage |-> "none", invoked |-> 0, commands |-> 0]

\* One call of webhook() with the delivery e, up to the call of the
\* handler; handle_triage_mention is taken whole.
Receive(e, external) ==
    /\ pc = "webhook"
    /\ routing.pc = "listen"
    /\ reviewing.pc = "idle"
    /\ LET r == Route(e)
           command == /\ e.signed
                      /\ e.type = "issue_comment"
                      /\ e.action = "created"
                      /\ ~EndsWith(e.login, <<"[bot]">>)
                      /\ Strip(e.body, Whitespace)
                             \in {ansieyes_triage, ansieyes_prreview}
       IN  \E t \in (IF r.handler = "handle_triage_mention"
                      THEN TriageMentionOutcomes(e.is_pull_request)
                      ELSE {[did |-> "none", comments |-> 0]}) :
              /\ routing' = [routing EXCEPT
                     !.received = IF external THEN @ + 1 ELSE @,
                     !.pending =
                         (IF external THEN @ ELSE @ - 1)
                         + t.comments,
                     !.event = Some(e),
                     !.response = r.status,
                     !.handler = r.handler,
                     !.triage = t.did,
                     !.invoked =
                         IF r.handler \in {"handle_triage_mention",
                                           "handle_pr_review_mention"}
                         THEN @ + 1 ELSE @,
                     !.commands = IF command THEN @ + 1 ELSE @,
                     !.pc = IF r.handler = "handle_pr_review_mention"
                            THEN "handler" ELSE "listen"]
              /\ reviewing' =
                    IF r.handler = "handle_pr_review_mention"
                    THEN [NoReview(reviewing.model) EXCEPT
                             !.pc = "start",
                             !.is_pull_request = e.is_pull_request]
                    ELSE reviewing
    /\ UNCHANGED <<mainVars, fmtVars, conc, chunking, coloring, configuring,
                   labelling, staging>>

\* A delivery from GitHub for something a person or another App did.
W_External ==
    /\ routing.received < MaxEvents
    /\ \E e \in Events : Receive(e, TRUE)

\* The delivery GitHub makes for a comment the App posted itself.
W_BotComment ==
    /\ routing.pending > 0
    /\ \E e \in BotEvents : Receive(e, FALSE)

\* Lines 248-255: handle_pr_review_mention has returned and the webhook
\* answers; the comments the handler posted will be delivered.
W_Return ==
    /\ pc = "webhook"
    /\ routing.pc = "handler"
    /\ reviewing.pc = "done"
    /\ routing' = [routing EXCEPT !.pc = "listen",
                                  !.pending = @ + Len(reviewing.created)]
    /\ reviewing' = [reviewing EXCEPT !.pc = "idle"]
    /\ UNCHANGED <<mainVars, fmtVars, conc, chunking, coloring, configuring,
                   labelling, staging>>

ReviewStep(next) ==
    /\ pc = "webhook"
    /\ routing.pc = "handler"
    /\ reviewing' = next
    /\ UNCHANGED <<mainVars, fmtVars, conc, chunking, coloring, configuring,
                   labelling, routing, staging>>

\* The handler leaves through one of its except clauses (lines 901-906).
ReviewRaises(kind) ==
    ReviewStep([reviewing EXCEPT !.pc = "done", !.raised = Some(kind)])

\* issue.create_comment(kind): the comment is on the issue, or the call
\* raised.
ReviewComment(kind, posted, next_pc) ==
    IF posted
    THEN ReviewStep([reviewing EXCEPT !.pc = next_pc,
                                      !.created = Append(@, kind),
                                      !.on_issue = @ \cup {kind}])
    ELSE ReviewRaises("GithubException")

\* Lines 812-837: the client, the repository, the issue; on a plain issue
\* the 'Invalid Command' comment and nothing else; then the pull request.
R_Start ==
    /\ reviewing.pc = "start"
    /\ \E client \in BOOLEAN, fetched \in BOOLEAN, posted \in BOOLEAN :
          IF ~client
          THEN ReviewStep([reviewing EXCEPT !.pc = "done"])
          ELSE IF ~fetched THEN ReviewRaises("GithubException")
          ELSE IF ~reviewing.is_pull_request
          THEN ReviewComment("invalid_command", posted, "done")
          ELSE ReviewStep([reviewing EXCEPT !.pc = "processing"])

\* Lines 839-845.
R_Processing ==
    /\ reviewing.pc = "processing"
    /\ \E posted \in BOOLEAN : ReviewComment("processing", posted, "files")

\* Lines 847-868: the title, the body and the changed files.
R_Files ==
    /\ reviewing.pc = "files"
    /\ \E listed \in BOOLEAN, n \in 0..MaxFiles :
          IF listed
          THEN ReviewStep([reviewing EXCEPT
                   !.pc = "generate",
                   !.file_changes = SubSeq(ChangedFiles, 1, n)])
          ELSE ReviewRaises("GithubException")

\* Lines 873-879.
R_Review ==
    /\ reviewing.pc = "generate"
    /\ \E gen \in GenerateOutcomes :
          ReviewStep([reviewing EXCEPT
              !.pc = "result",
              !.calls = Append(@, "review_pr"),
              !.review_text =
                  Some(review_pr(reviewing.model, gen, reviewing.file_changes))])

\* Lines 881-899: 'not review_text or review_text.startswith(...)', where
\* startswith is a method of str and not of dict; the failure notice or the
\* review is posted and, after the review, the processing comment deleted.
R_Result ==
    /\ reviewing.pc = "result"
    /\ LET review_text == Get(reviewing.review_text)
       IN  \E posted \in BOOLEAN, starts_with_cross \in BOOLEAN :
              IF ~Truthy(review_text)
              THEN ReviewComment("review_failed", posted, "done")
              ELSE IF review_text.type # "str"
              THEN ReviewRaises("AttributeError")
              ELSE IF starts_with_cross
              THEN ReviewComment("review_text", posted, "done")
              ELSE IF posted
              THEN ReviewStep([reviewing EXCEPT
                       !.pc = "done",
                       !.created = Append(@, "review_text"),
                       !.on_issue = (@ \cup {"review_text"}) \ {"processing"}])
              ELSE ReviewRaises("GithubException")

NextWebhook ==
    \/ W_External
    \/ W_BotComment
    \/ W_Return
    \/ R_Start
    \/ R_Processing
    \/ R_Files
    \/ R_Review
    \/ R_Result

SpecWebhook == InitWebhook /\ [][NextWebhook]_vars

\* The result comments of handle_pr_review_mention.
ResultComments == {"review_text", "review_failed"}

\* C33: when handle_pr_review_mention has returned after posting its
\* processing comment and calling review_pr, whatever review_pr returned,
\* and no tracker call having raised, it has posted exactly one result
\* comment: the review or the 'Review Failed' notice.
C33_ReviewAlwaysPostsOneResult ==
    (reviewing.pc = "done"
        /\ "review_pr" \in Range(reviewing.calls)
        /\ reviewing.raised # Some("GithubException")) =>
        Cardinality({i \in 1..Len(reviewing.created) :
                        reviewing.created[i] \in ResultComments}) = 1

\* C34: when handle_triage_mention has returned, on whatever exit path, the
\* processing comment it posted is no longer on the issue: its deletion was
\* attempted before the return.
C34_ProcessingCommentDeletedOnReturn ==
    (mode = "mention" /\ pc = "done") => "processing" \notin comments

\* The two mention handlers.
MentionHandlers == {"handle_triage_mention", "handle_pr_review_mention"}

\* C35: a delivery whose comment author's login ends with '[bot]' invokes
\* neither handle_triage_mention nor handle_pr_review_mention, whatever its
\* body; and the handlers have been invoked at most as many times as
\* commands were left by authors that are not bots, the deliveries for the
\* App's own comments included.
C35_BotCommentsNeverStartRuns ==
    routing.pc # "off" =>
        /\ (routing.event # None
               /\ Get(routing.event).type = "issue_comment"
               /\ EndsWith(Get(routing.event).login, <<"[bot]">>)) =>
               routing.handler \notin MentionHandlers
        /\ routing.invoked <= routing.commands

\* A run has been started, it has posted comments, and the delivery for
\* one of them, whose body is the bare command, has been answered without
\* a handler.
C35_Witness ==
    /\ routing.pc = "listen"
    /\ routing.invoked >= 1
    /\ routing.event # None
    /\ Get(routing.event).login = BotLogin
    /\ Get(routing.event).body = ansieyes_triage
    /\ Get(routing.event).action = "created"
    /\ routing.response = 200
    /\ routing.handler = "none"
    /\ routing.invoked = routing.commands

\* C36: the triage pipeline is started only by a created issue comment
\* whose stripped body is exactly the triage command on an item that is not
\* a pull request, and on a pull request handle_triage_mention does nothing
\* but post the 'Invalid Command' comment; handle_pr_review_mention on a
\* plain issue posts nothing but the 'Invalid Command' comment and does not
\* call review_pr, which is called only for the bare review command on a
\* pull request.
C36_CommandsOnlyOnTheirItemKind ==
    (routing.pc # "off" /\ routing.event # None) =>
        LET e == Get(routing.event)
        IN  /\ routing.triage = "pipeline" =>
                   /\ e.type = "issue_comment"
                   /\ e.action = "created"
                   /\ Strip(e.body, Whitespace) = ansieyes_triage
                   /\ ~e.is_pull_request
            /\ (routing.handler = "handle_triage_mention"
                    /\ e.is_pull_request) =>
                   routing.triage \in {"invalid_command", "no_client",
                                       "GithubException"}
            /\ routing.pc = "handler" =>
                   /\ e.type = "issue_comment"
                   /\ e.action = "created"
                   /\ Strip(e.body, Whitespace) = ansieyes_prreview
                   /\ reviewing.is_pull_request = e.is_pull_request
                   /\ ~e.is_pull_request =>
                          /\ "review_pr" \notin Range(reviewing.calls)
                          /\ Range(reviewing.created) \subseteq {"invalid_command"}

\* The review command was left on a plain issue, in a body with white
\* space around it, and the handler has returned after its 'Invalid
\* Command' comment.
C36_Witness ==
    /\ routing.pc = "handler"
    /\ reviewing.pc = "done"
    /\ ~Get(routing.event).is_pull_request
    /\ reviewing.created = <<"invalid_command">>
    /\ reviewing.calls = <<>>

\* The duplicate check of this run failed: no API key, a nonzero exit of
\* the tool, or an exception within check_for_duplicates.
DetectorFailed ==
    \E e \in {"no_api_key", "nonzero", "launch_error"} :
        ToolEnded("check_for_duplicates", e)

\* C37: check_for_duplicates is called only with a candidate list that is
\* not empty; without candidates duplicate_check stays absent and a run
\* that passed the gate goes on to the repository.  A duplicate check that
\* failed answers is_duplicate = false: the run does not end as a
\* duplicate, it goes on to the repository, and when it has returned the
\* Librarian was called unless the clone failed.
C37_DuplicateDetectorFailsOpen ==
    /\ existing_issues = <<>> =>
           /\ "check_for_duplicates" \notin Range(calls)
           /\ result.duplicate_check = None
           /\ (pc \in ReturnedPcs /\ mode # "none" /\ ~GateBlocked
                   /\ result.prompt_injection_check # None) =>
                  repo_path # None
    /\ DetectorFailed =>
           /\ existing_issues # <<>>
           /\ result.duplicate_check # None
           /\ Get(result.duplicate_check).is_duplicate = FALSE
           /\ ~ReportedDuplicate
           /\ pc = "t_acquire" \/ repo_path # None
           /\ pc \in ReturnedPcs =>
                  \/ "run_librarian" \in Range(calls)
                  \/ \E out \in CloneOutcomes \ {"ok"} :
                        ToolEnded("git_clone", out)

C37_Witness ==
    /\ api_key
    /\ ToolEnded("check_for_duplicates", "launch_error")
    /\ "run_librarian" \in Range(calls)
    /\ result.librarian # None
    /\ pc = "t_return"

---------------------------------------------------------------------------
(* The temporary JSON files of check_for_duplicates, run_librarian and     *)
(* run_surgeon, called one after the other as triage_issue does.           *)

Stages == <<"check_for_duplicates", "run_librarian", "run_surgeon">>

InitStages ==
    /\ SideInit("stages")
    /\ NoLabelling
    /\ NoReviewing
    /\ NoRouting
    /\ \E has_api_key \in BOOLEAN :
          staging = [pc |-> "create", stage |-> 1, api_key |-> has_api_key,
                     files |-> {}, returncode |-> 0, returned |-> <<>>]

StageStep(next) ==
    /\ pc = "stages"
    /\ staging' = next
    /\ UNCHANGED <<mainVars, fmtVars, conc, chunking, coloring, configuring,
                   labelling, reviewing, routing>>

\* The stage returns the given kind of result, leaving the given files,
\* and the next stage is called.
StageReturns(kind, files) ==
    StageStep([staging EXCEPT
        !.pc = IF staging.stage = Len(Stages) THEN "done" ELSE "create",
        !.stage = IF staging.stage = Len(Stages) THEN @ ELSE @ + 1,
        !.files = files,
        !.returncode = 0,
        !.returned = Append(@, [stage |-> Stages[staging.stage],
                                result |-> kind])])

\* Lines 123-130, 184-194, 255-262: without an API key the stage returns at
\* once; otherwise tempfile.NamedTemporaryFile(delete=False) makes the
\* stage's file, unless it raises.
S_Create ==
    /\ staging.pc = "create"
    /\ IF ~staging.api_key
       THEN StageReturns("API key not configured", staging.files)
       ELSE \E created \in BOOLEAN :
               IF created
               THEN StageStep([staging EXCEPT
                        !.pc = "run",
                        !.files = @ \cup {Stages[staging.stage]}])
               ELSE StageReturns("exception", staging.files)

\* Lines 144-150, 209-215, 294-300: subprocess.run raises when the tool
\* cannot be launched, which the stage's except clause turns into an error
\* result; otherwise the tool exits, and may have removed the output file
\* it was given.
S_Run ==
    /\ staging.pc = "run"
    /\ \E launched \in BOOLEAN, returncode \in {0, 1}, removed \in BOOLEAN :
          /\ Stages[staging.stage] = "check_for_duplicates" => ~removed
          /\ IF launched
             THEN StageStep([staging EXCEPT
                      !.pc = "collect",
                      !.returncode = returncode,
                      !.files = IF removed THEN @ \ {Stages[staging.stage]}
                                ELSE @])
             ELSE /\ returncode = 0
                  /\ ~removed
                  /\ StageReturns("exception", staging.files)

\* Lines 152-159, 217-225, 302-311: the result is read and the file
\* unlinked.  check_for_duplicates unlinks first and parses stdout after;
\* run_librarian and run_surgeon read the file, which may raise, before
\* they unlink it; run_librarian unlinks on its failure path without
\* looking whether the file exists.
S_Collect ==
    /\ staging.pc = "collect"
    /\ LET stage == Stages[staging.stage]
           exists == stage \in staging.files
           unlinked == staging.files \ {stage}
       IN  \E read \in BOOLEAN :
              IF stage = "check_for_duplicates"
              THEN IF staging.returncode = 0
                   THEN StageReturns(IF read THEN "json" ELSE "exception",
                                     unlinked)
                   ELSE /\ read
                        /\ StageReturns("error", unlinked)
              ELSE IF staging.returncode = 0 /\ exists
              THEN IF read
                   THEN StageReturns(IF stage = "run_librarian" THEN "json"
                                     ELSE "formatted_output", unlinked)
                   ELSE StageReturns("exception", staging.files)
              ELSE /\ read
                   /\ StageReturns(IF stage = "run_librarian" /\ ~exists
                                   THEN "exception" ELSE "error", unlinked)

NextStages ==
    \/ S_Create
    \/ S_Run
    \/ S_Collect

SpecStages == InitStages /\ [][NextStages]_vars

\* C38: a stage that has returned has left no temporary file behind: the
\* file it created is deleted, on every path.
C38_StageLeavesNoTempFile ==
    staging.pc # "off" =>
        \A i \in 1..Len(staging.returned) :
            staging.returned[i].stage \notin staging.files

\* C39: when _generate_repomix_chunks has ended and no run of the tool
\* raised, the tool was run for every directory of the root that is not
\* hidden and not excluded, whatever the runs' exit codes and outputs were;
\* and it has always ended by returning the chunk directory.
C39_ChunkingGoesOnAfterFailedDirectory ==
    (pc = "chunks" /\ chunking.pc = "done") =>
        /\ chunking.returned = Some(repomix_chunks)
        /\ (\A x \in chunking.exits : x.exit \in {"ok", "nonzero", "empty"}) =>
               chunking.invoked = root_dirs(chunking.entries) \ chunking.excluded

\* The tool exited nonzero for one directory and gave an empty chunk for
\* another, and a third was chunked all the same.
C39_Witness ==
    /\ pc = "chunks"
    /\ chunking.pc = "done"
    /\ chunking.returned = Some(repomix_chunks)
    /\ \E x, y, z \in chunking.exits :
          /\ x.exit = "nonzero"
          /\ y.exit = "empty"
          /\ z.exit = "ok"
          /\ Cardinality({x.dir_name, y.dir_name, z.dir_name}) = 3
=============================================================================
